---------------------------- MODULE Spec2Model ----------------------------
(***************************************************************************)
(* Line-item standardization engine of the JSE data extractor              *)
(* (standardized_tables/build_standardized_tables.py), the fiscal-year     *)
(* assignment and quarter validation of fin_stat_meta/                     *)
(* migrate_to_bigquery.py, and the retry loop and selection of             *)
(* standardize_acct_items.py.                                              *)
(*                                                                         *)
(* Strings are tuples of one-character strings, so that norm and           *)
(* similarity are computed character by character as the code does.        *)
(* Dates are day numbers; a report_date (a DATETIME) counts                *)
(* TicksPerDay ticks per day.                                              *)
(***************************************************************************)
EXTENDS Integers, Sequences, FiniteSets, Bags, TLC

\* ------------------------------------------------------------------------
\* Bounds of the model
\* ------------------------------------------------------------------------
\* snapshot dates and target dates of the choose_snapshot specification
MaxDate == 5
\* longest JSON array the LLM service answers with
MaxArr == 2
\* slices of the large and of the small company where slices are counted
ManySlices == 21
FewSlices == 3
\* rows of the mapping table where the rebuild is taken on its own
MaxStaged == 2
\* longest string where norm is taken on its own
MaxStr == 3
\* latest reference date and most records of the fiscal-year specification
MaxDay == 4
MaxRecords == 3
\* latest reference date of the quarter-order specification
MaxQDate == 2
\* most entries of the dictionary select_best_standardization is given
MaxItems == 3

\* ------------------------------------------------------------------------
\* Program constants
\* ------------------------------------------------------------------------
CONCURRENCY == 20
\* the 0.70 threshold of pass_similarity, in hundredths
SimThresholdPct == 70
\* standardize_acct_items.py: the retry mechanism, in seconds
MAX_RETRIES == 5
INITIAL_BACKOFF == 1
MAX_BACKOFF == 32
\* Python's None (a snapshot_date or as_of_date that is absent)
None == -1
\* resolution of a DATETIME within one day
TicksPerDay == 2

\* ------------------------------------------------------------------------
\* Strings
\* ------------------------------------------------------------------------
UpperCase == <<"A","B","C","D","E","F","G","H","I","J","K","L","M",
              "N","O","P","Q","R","S","T","U","V","W","X","Y","Z">>
LowerCase == <<"a","b","c","d","e","f","g","h","i","j","k","l","m",
              "n","o","p","q","r","s","t","u","v","w","x","y","z">>

ToLower == [c \in { UpperCase[i] : i \in 1..Len(UpperCase) } |->
              LowerCase[CHOOSE i \in 1..Len(UpperCase) : UpperCase[i] = c]]

\* str.lower() on one character
LowerChar(c) == IF c \in DOMAIN ToLower THEN ToLower[c] ELSE c

\* str.lower()
lower(s) == [i \in 1..Len(s) |-> LowerChar(s[i])]

\* the characters NORMALISE_RE removes: space, dash, apostrophe
NORMALISE_RE == {" ", "-", "'"}

\* str.strip() leaves something: some character is not whitespace
NonBlank(s) == \E i \in 1..Len(s) : s[i] # " "

\* a substitution that stops after the first match (re.sub with count=1)
NormFirstMatch(s) ==
    LET l == lower(s)
        hits == { i \in 1..Len(l) : l[i] \in NORMALISE_RE }
    IN  IF hits = {} THEN l
        ELSE LET h == CHOOSE i \in hits : \A j \in hits : i <= j
             IN  SubSeq(l, 1, h - 1) \o SubSeq(l, h + 1, Len(l))

norm(s) == SelectSeq(lower(s), LAMBDA c : c \notin NORMALISE_RE)

\* the length of the common block of a and b that starts at a[i], b[j] and
\* stays below ahi, bhi
RECURSIVE BlockLen(_, _, _, _, _, _)
BlockLen(a, b, i, j, ahi, bhi) ==
    IF i >= ahi \/ j >= bhi THEN 0
    ELSE IF a[i] # b[j] THEN 0
    ELSE 1 + BlockLen(a, b, i + 1, j + 1, ahi, bhi)

\* difflib.SequenceMatcher.find_longest_match(alo, ahi, blo, bhi) and the
\* recursion of get_matching_blocks around it: the longest common block, the
\* earliest in a, then the earliest in b; then the same to its left and to
\* its right.  The sum of the block sizes.  (Indices from 1, ahi and bhi
\* exclusive.)
RECURSIVE MatchCount(_, _, _, _, _, _)
MatchCount(a, b, alo, ahi, blo, bhi) ==
    LET starts == { p \in (alo..(ahi - 1)) \X (blo..(bhi - 1)) : a[p[1]] = b[p[2]] }
    IN  IF starts = {} THEN 0
        ELSE LET len == [p \in starts |-> BlockLen(a, b, p[1], p[2], ahi, bhi)]
                 best == CHOOSE p \in starts : \A q \in starts :
                            \/ len[p] > len[q]
                            \/ len[p] = len[q] /\ p[1] < q[1]
                            \/ len[p] = len[q] /\ p[1] = q[1] /\ p[2] <= q[2]
                 i == best[1]
                 j == best[2]
                 k == len[best]
             IN  k + MatchCount(a, b, alo, i, blo, j)
                   + MatchCount(a, b, i + k, ahi, j + k, bhi)

\* similarity(a, b) = ratio() = 2.0 * M / T (1.0 when both are empty), as the
\* fraction <<numerator, denominator>>
similarity(a, b) ==
    LET la == lower(a)
        lb == lower(b)
    IN  IF Len(la) + Len(lb) = 0 THEN <<1, 1>>
        ELSE <<2 * MatchCount(la, lb, 1, Len(la) + 1, 1, Len(lb) + 1),
               Len(la) + Len(lb)>>

\* sim_score >= 0.70
PassSimilarity(sim) == 100 * sim[1] >= SimThresholdPct * sim[2]

\* ------------------------------------------------------------------------
\* choose_snapshot
\* ------------------------------------------------------------------------
\* sorted(...) of a set of dates
RECURSIVE SortedSeq(_)
SortedSeq(S) ==
    IF S = {} THEN << >>
    ELSE LET m == CHOOSE x \in S : \A y \in S : x <= y
         IN  <<m>> \o SortedSeq(S \ {m})

Returned(d) == [raised |-> FALSE, value |-> d]
ValueError == [raised |-> TRUE, value |-> None]

ChooseSnapshotLatest(dates, report_date) ==
    IF dates = {} THEN ValueError
    ELSE Returned(CHOOSE d \in dates : \A e \in dates : e <= d)

\* max(...) of an empty sequence raises ValueError
choose_snapshot(dates, report_date) ==
    LET sorted_dates == SortedSeq(dates)
    IN  IF dates = {} THEN ValueError
        ELSE IF Len(sorted_dates) = 1 THEN Returned(sorted_dates[1])
        ELSE IF Len(sorted_dates) = 2
             THEN IF report_date >= sorted_dates[2]
                  THEN Returned(sorted_dates[2])
                  ELSE Returned(sorted_dates[1])
        ELSE LET le == { d \in dates : d <= report_date }
             IN  IF le = {} THEN ValueError
                 ELSE Returned(CHOOSE d \in le : \A e \in le : e <= d)

\* ------------------------------------------------------------------------
\* The data of a run: strings, lookup table, raw tables
\* ------------------------------------------------------------------------
\* Python's None where a string is expected
NoneStr == <<"None">>

NONE == <<"N","O","N","E">>
AMBIG == <<"A","M","B","I","G">>
LLM_ERROR == <<"L","L","M","_","E","R","R","O","R">>
LOW_CONFIDENCE == <<"L","O","W","_","C","O","N","F","I","D","E","N","C","E">>
RAW_UNMAPPED == <<"R","A","W","_","U","N","M","A","P","P","E","D">>
EXPECTED_MISSING == <<"E","X","P","E","C","T","E","D","_","M","I","S","S","I","N","G">>
Sentinels == {NONE, AMBIG, LLM_ERROR}

\* canonical (standardized) names
NP == <<"N","p">>
TA == <<"T","a">>
\* company variants
NI == <<"N","i">>
NE == <<"N","e">>
AS == <<"A","s">>
\* raw headers of the statements
RawNp == <<"N","-","p">>
RawNi == <<"n","'","i">>
\* what only an LLM answer can hold: an item that was not asked about, a
\* header that is not in the slice
StrayItem == <<"Z","z">>
Hallucinated == <<"H","h">>

LookupRow(sym, v, std, d) ==
    [symbol |-> sym, company_line_item |-> v,
     standardized_line_item |-> std, as_of_date |-> d]

\* the lookup tables a run may find (rows in the order the query returns)
LookupTimelessOnly ==
    << LookupRow("ABC", NI, NP, None) >>
LookupTwoSnapshots ==
    << LookupRow("ABC", NI, NP, 10), LookupRow("ABC", NE, NP, 20),
       LookupRow("ABC", AS, TA, None) >>
LookupThreeSnapshots ==
    << LookupRow("ABC", NE, NP, 20), LookupRow("ABC", NI, NP, 30),
       LookupRow("ABC", NI, NP, 40), LookupRow("ABC", AS, TA, None) >>
Lookups == {LookupTimelessOnly, LookupTwoSnapshots, LookupThreeSnapshots}

Period1 == <<15 * TicksPerDay, "Q2", "quarterly", "group">>
Period2 == <<25 * TicksPerDay + 1, "FY", "annual", "group">>

RawRow(sym, key, csv, item) ==
    [symbol |-> sym, report_date |-> key[1], period |-> key[2],
     period_type |-> key[3], group_or_company_level |-> key[4],
     csv_path |-> csv, line_item |-> item]

\* the raw table jse_raw_ABC
RawTableABC ==
    { RawRow("ABC", Period1, "a.csv", RawNp),
      RawRow("ABC", Period1, "a.csv", NE),
      RawRow("ABC", Period2, "b.csv", RawNi),
      RawRow("ABC", Period2, "b.csv", NoneStr) }

VARIABLES
    lookup_rows,     \* table lu_line_item_mappings, in query order
    raw_rows,        \* the raw tables, every row with its symbol
    symbols,         \* main: the symbols of the run
    co_pc,           \* process_company: where each company's coroutine is
    dated_snaps,     \* process_company: per symbol, date -> ordered dict
    timeless,        \* process_company: per symbol, ordered dict
    slices,          \* process_company: per symbol, slice key -> csv, headers
    sem,             \* process_company: per symbol, free permits of sem
    sem_waiters,     \* process_company: per symbol, slices queued on sem
    map_rows,        \* process_company: per symbol, bag of mapping rows
    audit_rows,      \* process_company: per symbol, bag of audit rows
    seen_map_keys,   \* process_company: per symbol, set of dedup keys
    task,            \* handle_slice: per <<symbol, key>>, the coroutine's locals
    staging_table,   \* table staging_line_item_mapping: bag of rows
    audit_table,     \* table standardization_audit: bag of rows
    std_table,       \* per symbol, table jse_standardized_<SYMBOL>
    cs_dates,        \* choose_snapshot: argument dates
    cs_report_date,  \* choose_snapshot: argument report_date
    cs_result,       \* choose_snapshot: what the call gave
    fn_args,         \* a function called on its own: its arguments
    fn_result,       \* a function called on its own: what its calls gave
    fn_locals,       \* a function called on its own: its locals between steps
    main_pc,         \* main: where the run is
    args_symbol,     \* main: the --symbol argument, "" when absent
    unstarted,       \* per symbol, how many slice tasks have not run yet
    in_flight        \* per symbol, how many slices await their LLM call

datavars == <<lookup_rows, raw_rows, symbols>>
covars == <<co_pc, dated_snaps, timeless, slices, sem, sem_waiters,
            map_rows, audit_rows, seen_map_keys>>
fnvars == <<fn_args, fn_result, fn_locals>>
csvars == <<cs_dates, cs_report_date, cs_result, fnvars>>
storevars == <<staging_table, audit_table, std_table>>
mainvars == <<main_pc, args_symbol>>
countvars == <<unstarted, in_flight>>
vars == <<datavars, covars, task, storevars, csvars, mainvars, countvars>>

\* ------------------------------------------------------------------------
\* load_lookup
\* ------------------------------------------------------------------------
\* defaultdict(list)[std].append(v) on an insertion-ordered dict, kept as a
\* sequence of [std, variants]
DictAppend(d, std, v) ==
    IF \E i \in 1..Len(d) : d[i].std = std
    THEN [i \in 1..Len(d) |->
            IF d[i].std = std
            THEN [std |-> std, variants |-> Append(d[i].variants, v)]
            ELSE d[i]]
    ELSE Append(d, [std |-> std, variants |-> <<v>>])

RECURSIVE GroupRows(_, _)
GroupRows(rows, acc) ==
    IF rows = << >> THEN acc
    ELSE GroupRows(Tail(rows),
                   DictAppend(acc, Head(rows).standardized_line_item,
                              Head(rows).company_line_item))

load_lookup(symbol) ==
    LET rows == SelectSeq(lookup_rows, LAMBDA r : r.symbol = symbol)
        dates == { rows[i].as_of_date : i \in 1..Len(rows) } \ {None}
    IN  [dated |-> [d \in dates |->
                      GroupRows(SelectSeq(rows, LAMBDA r : r.as_of_date = d), << >>)],
         timeless |-> GroupRows(SelectSeq(rows, LAMBDA r : r.as_of_date = None), << >>)]

\* the slices of the raw table of a symbol (WHERE line_item IS NOT NULL)
SlicesOf(symbol) ==
    LET rows == { r \in raw_rows : r.symbol = symbol /\ r.line_item # NoneStr }
        KeyOf(r) == <<r.report_date, r.period, r.period_type,
                      r.group_or_company_level>>
        keys == { KeyOf(r) : r \in rows }
    IN  [k \in keys |->
            [csv |-> { r.csv_path : r \in { x \in rows : KeyOf(x) = k } },
             headers |-> { r.line_item : r \in { x \in rows : KeyOf(x) = k } }]]

\* rd.date()
DateOf(rd) == rd \div TicksPerDay

\* ------------------------------------------------------------------------
\* handle_slice: the vocabulary of a slice
\* ------------------------------------------------------------------------
\* the (variant, std) pairs of one ordered dict in the order handle_slice
\* registers them: each std's variants, then the std itself
RECURSIVE PairsOf(_)
PairsOf(d) ==
    IF d = << >> THEN << >>
    ELSE LET e == Head(d)
         IN  [i \in 1..Len(e.variants) |-> <<e.variants[i], e.std>>]
               \o << <<e.std, e.std>> >> \o PairsOf(Tail(d))

\* _add_variant: skip nulls and blanks, register the normalized key (a later
\* registration of the same key replaces the earlier one)
AddVariant(vm, v, std) ==
    IF v # NoneStr /\ v # << >> /\ NonBlank(v)
    THEN [n \in DOMAIN vm \cup {norm(v)} |-> IF n = norm(v) THEN <<v, std>> ELSE vm[n]]
    ELSE vm

RECURSIVE AddAll(_, _)
AddAll(vm, pairs) ==
    IF pairs = << >> THEN vm
    ELSE AddAll(AddVariant(vm, Head(pairs)[1], Head(pairs)[2]), Tail(pairs))

\* canonical_items.append(std) for the snapshot, then for every timeless std
\* that is not in it yet
RECURSIVE AppendNew(_, _)
AppendNew(items, d) ==
    IF d = << >> THEN items
    ELSE AppendNew(IF \E i \in 1..Len(items) : items[i] = Head(d).std
                   THEN items ELSE Append(items, Head(d).std),
                   Tail(d))

\* every dated snapshot at once
SnapshotDictAll(dated, snapshot_date) ==
    IF snapshot_date # None
    THEN LET RECURSIVE Cat(_)
             Cat(ds) == IF ds = << >> THEN << >>
                        ELSE dated[Head(ds)] \o Cat(Tail(ds))
         IN  Cat(SortedSeq(DOMAIN dated))
    ELSE << >>

\* the dated snapshot handle_slice reads: the chosen one, or none
SnapshotDict(dated, snapshot_date) ==
    IF snapshot_date # None THEN dated[snapshot_date] ELSE << >>

variant_map_of(dated, tl, snapshot_date) ==
    AddAll(AddAll(<< >>, PairsOf(SnapshotDict(dated, snapshot_date))), PairsOf(tl))

canonical_items_of(dated, tl, snapshot_date) ==
    LET snap == SnapshotDict(dated, snapshot_date)
        items == AppendNew([i \in 1..Len(snap) |-> snap[i].std], tl)
    IN  SelectSeq(items, LAMBDA std : std # NoneStr /\ std # << >>)

\* ------------------------------------------------------------------------
\* handle_slice: rows
\* ------------------------------------------------------------------------
\* a key that leaves the slice out
DedupKeyNoSlice(raw, snapshot_date, key) == <<raw, snapshot_date>>

DedupKey(raw, snapshot_date, key) ==
    <<raw, snapshot_date, key[1], key[2], key[3], key[4]>>

MapRow(run, symbol, snapshot_date, key, raw, company, std, mtype) ==
    [run_id |-> run, symbol |-> symbol, snapshot_date |-> snapshot_date,
     report_date |-> key[1], period |-> key[2], period_type |-> key[3],
     group_or_company_level |-> key[4],
     raw_line_item |-> raw, company_line_item |-> company,
     standardized_line_item |-> std, match_type |-> mtype]

\* llm_detail is the header (or None); llm_sim is the sim=... part of it, the
\* similarity as a fraction of two integers (<<0, 1>> where there is none)
AuditRow(run, symbol, csv, snapshot_date, key, company, std, status, detail, sim) ==
    [run_id |-> run, symbol |-> symbol, csv_path |-> csv,
     report_date |-> key[1], period |-> key[2], period_type |-> key[3],
     group_or_company_level |-> key[4], snapshot_date |-> snapshot_date,
     company_line_item |-> company, standardized_line_item |-> std,
     status |-> status, llm_detail |-> detail, llm_sim |-> sim]

\* the run_id of the run
RunId == "20240101T000000"

\* ------------------------------------------------------------------------
\* handle_slice: exact pass, LLM pass, leftovers
\* A context cx holds what the passes read: symbol, key, snapshot_date,
\* variant_map, llm_res, csv (the csv_path next(iter(...)) gives).
\* A pass state st holds what they write: mapped_lookup, seen (seen_map_keys),
\* rows (map_rows), audits (audit_rows), raised (an exception ended the pass).
\* ------------------------------------------------------------------------
One(row) == SetToBag({row})

ExactStepVerbatim(st, raw, cx) ==
    IF raw \in DOMAIN cx.variant_map
    THEN LET company_variant == cx.variant_map[raw][1]
             std == cx.variant_map[raw][2]
             dedup == DedupKey(raw, cx.snapshot_date, cx.key)
         IN  [st EXCEPT
                !.mapped_lookup = @ \cup {company_variant},
                !.seen = @ \cup {dedup},
                !.rows = IF dedup \notin st.seen
                         THEN @ (+) One(MapRow(RunId, cx.symbol, cx.snapshot_date,
                                               cx.key, raw, company_variant, std,
                                               "EXACT"))
                         ELSE @]
    ELSE st

\* one turn of "for raw in raw_headers"
ExactStep(st, raw, cx) ==
    LET n == norm(raw)
    IN  IF n \in DOMAIN cx.variant_map
        THEN LET company_variant == cx.variant_map[n][1]
                 std == cx.variant_map[n][2]
                 dedup == DedupKey(raw, cx.snapshot_date, cx.key)
             IN  [st EXCEPT
                    !.mapped_lookup = @ \cup {company_variant},
                    !.seen = @ \cup {dedup},
                    !.rows = IF dedup \notin st.seen
                             THEN @ (+) One(MapRow(RunId, cx.symbol, cx.snapshot_date,
                                                   cx.key, raw, company_variant, std,
                                                   "EXACT"))
                             ELSE @]
        ELSE st

\* "for raw in raw_headers": the headers are a set; its iteration order does
\* not show in the result, every header having its own dedup key
RECURSIVE ExactPass(_, _, _)
ExactPass(st, todo, cx) ==
    IF todo = {} THEN st
    ELSE LET raw == CHOOSE r \in todo : TRUE
         IN  ExactPass(ExactStep(st, raw, cx), todo \ {raw}, cx)

\* llm_res.get(canonical, "LLM_ERROR")
RawMatch(llm_res, canonical) ==
    IF canonical \in DOMAIN llm_res THEN llm_res[canonical] ELSE LLM_ERROR

LLMStepNoDedup(st, canonical, cx) ==
    LET raw_match == RawMatch(cx.llm_res, canonical)
        sim_score == IF raw_match \notin Sentinels
                     THEN similarity(canonical, raw_match) ELSE <<0, 1>>
        std == cx.variant_map[norm(canonical)][2]
    IN  IF raw_match \notin Sentinels
        THEN [st EXCEPT
                !.mapped_lookup = @ \cup {canonical},
                !.seen = @ \cup {DedupKey(raw_match, cx.snapshot_date, cx.key)},
                !.rows = @ (+) One(MapRow(RunId, cx.symbol, cx.snapshot_date, cx.key,
                                          raw_match, canonical, std, "LLM")),
                !.audits = IF PassSimilarity(sim_score) THEN @
                           ELSE @ (+) One(AuditRow(RunId, cx.symbol, cx.csv,
                                    cx.snapshot_date, cx.key, canonical, std,
                                    LOW_CONFIDENCE, raw_match, sim_score))]
        ELSE [st EXCEPT
                !.audits = @ (+) One(AuditRow(RunId, cx.symbol, cx.csv,
                                    cx.snapshot_date, cx.key, canonical, std,
                                    raw_match, NoneStr, <<0, 1>>))]

LLMStepOverwrite(st, canonical, cx) ==
    LET raw_match == RawMatch(cx.llm_res, canonical)
        sim_score == IF raw_match \notin Sentinels
                     THEN similarity(canonical, raw_match) ELSE <<0, 1>>
        std == cx.variant_map[norm(canonical)][2]
        old == { r \in BagToSet(st.rows) :
                   r.raw_line_item = raw_match /\ r.symbol = cx.symbol
                   /\ <<r.report_date, r.period, r.period_type,
                        r.group_or_company_level>> = cx.key }
    IN  IF raw_match \notin Sentinels
        THEN [st EXCEPT
                !.mapped_lookup = @ \cup {canonical},
                !.seen = @ \cup {DedupKey(raw_match, cx.snapshot_date, cx.key)},
                !.rows = (@ (-) SetToBag(old))
                           (+) One(MapRow(RunId, cx.symbol, cx.snapshot_date, cx.key,
                                          raw_match, canonical, std, "LLM")),
                !.audits = IF PassSimilarity(sim_score) THEN @
                           ELSE @ (+) One(AuditRow(RunId, cx.symbol, cx.csv,
                                    cx.snapshot_date, cx.key, canonical, std,
                                    LOW_CONFIDENCE, raw_match, sim_score))]
        ELSE [st EXCEPT
                !.audits = @ (+) One(AuditRow(RunId, cx.symbol, cx.csv,
                                    cx.snapshot_date, cx.key, canonical, std,
                                    raw_match, NoneStr, <<0, 1>>))]

LLMStepEitherOr(st, canonical, cx) ==
    LET raw_match == RawMatch(cx.llm_res, canonical)
        sim_score == IF raw_match \notin Sentinels
                     THEN similarity(canonical, raw_match) ELSE <<0, 1>>
        std == cx.variant_map[norm(canonical)][2]
        dedup == DedupKey(raw_match, cx.snapshot_date, cx.key)
    IN  IF raw_match \notin Sentinels
        THEN [st EXCEPT
                !.mapped_lookup = @ \cup {canonical},
                !.seen = @ \cup {dedup},
                !.rows = IF dedup \notin st.seen /\ PassSimilarity(sim_score)
                         THEN @ (+) One(MapRow(RunId, cx.symbol, cx.snapshot_date,
                                               cx.key, raw_match, canonical, std, "LLM"))
                         ELSE @,
                !.audits = IF PassSimilarity(sim_score) THEN @
                           ELSE @ (+) One(AuditRow(RunId, cx.symbol, cx.csv,
                                    cx.snapshot_date, cx.key, canonical, std,
                                    LOW_CONFIDENCE, raw_match, sim_score))]
        ELSE [st EXCEPT
                !.audits = @ (+) One(AuditRow(RunId, cx.symbol, cx.csv,
                                    cx.snapshot_date, cx.key, canonical, std,
                                    raw_match, NoneStr, <<0, 1>>))]

\* one turn of "for canonical in canonical_items".  variant_map[norm(canonical)]
\* raises KeyError where the key is missing; the rows appended before stay.
LLMStep(st, canonical, cx) ==
    LET raw_match == RawMatch(cx.llm_res, canonical)
        sim_score == IF raw_match \notin Sentinels
                     THEN similarity(canonical, raw_match) ELSE <<0, 1>>
        pass_similarity == PassSimilarity(sim_score)
        known == norm(canonical) \in DOMAIN cx.variant_map
        std == cx.variant_map[norm(canonical)][2]
        dedup == DedupKey(raw_match, cx.snapshot_date, cx.key)
        fresh == dedup \notin st.seen
    IN  IF st.raised THEN st
        ELSE IF raw_match \notin Sentinels
        THEN LET st1 == [st EXCEPT !.mapped_lookup = @ \cup {canonical},
                                   !.seen = @ \cup {dedup}]
             IN  IF fresh /\ ~known THEN [st1 EXCEPT !.raised = TRUE]
                 ELSE LET st2 == IF fresh
                                 THEN [st1 EXCEPT !.rows = @ (+) One(MapRow(RunId,
                                          cx.symbol, cx.snapshot_date, cx.key,
                                          raw_match, canonical, std, "LLM"))]
                                 ELSE st1
                      IN  IF pass_similarity THEN st2
                          ELSE IF ~known THEN [st2 EXCEPT !.raised = TRUE]
                          ELSE [st2 EXCEPT !.audits = @ (+) One(AuditRow(RunId,
                                   cx.symbol, cx.csv, cx.snapshot_date, cx.key,
                                   canonical, std, LOW_CONFIDENCE, raw_match,
                                   sim_score))]
        ELSE IF ~known THEN [st EXCEPT !.raised = TRUE]
        ELSE [st EXCEPT !.audits = @ (+) One(AuditRow(RunId, cx.symbol, cx.csv,
                           cx.snapshot_date, cx.key, canonical, std,
                           raw_match, NoneStr, <<0, 1>>))]

RECURSIVE LLMPass(_, _, _)
LLMPass(st, items, cx) ==
    IF items = << >> THEN st
    ELSE LLMPass(LLMStep(st, Head(items), cx), Tail(items), cx)

\* the values of a dict
Values(f) == { f[k] : k \in DOMAIN f }

\* raw headers that never matched any lookup item: one RAW_UNMAPPED row each
UnmappedNoise(raw_headers, cx) ==
    LET exact_matched == { raw \in raw_headers : norm(raw) \in DOMAIN cx.variant_map }
        mapped_raws == { rm \in Values(cx.llm_res) : rm \notin Sentinels }
    IN  (raw_headers \ exact_matched) \ mapped_raws

RawUnmappedRows(raw_headers, cx) ==
    SetToBag({ AuditRow(RunId, cx.symbol, cx.csv, cx.snapshot_date, cx.key,
                        NoneStr, NoneStr, RAW_UNMAPPED, raw, <<0, 1>>)
               : raw \in UnmappedNoise(raw_headers, cx) })

\* lookup items still missing after the LLM pass: one EXPECTED_MISSING row each
ExpectedMissingRows(mapped_lookup, cx) ==
    LET expected == { cx.variant_map[n][1] : n \in DOMAIN cx.variant_map }
    IN  SetToBag({ AuditRow(RunId, cx.symbol, cx.csv, cx.snapshot_date, cx.key,
                            missing, cx.variant_map[norm(missing)][2],
                            EXPECTED_MISSING, NoneStr, <<0, 1>>)
                   : missing \in expected \ mapped_lookup })

\* ------------------------------------------------------------------------
\* map_canonical_to_raw: what the LLM service may answer, and its decoding
\* ------------------------------------------------------------------------
\* resp.text: a JSON array of {company_line_item, raw_match} objects, or a
\* text that json.loads or the comprehension rejects
Malformed == [ok |-> FALSE, arr |-> << >>]

Responses(canonical_items, raw_headers) ==
    LET asked == { canonical_items[i] : i \in 1..Len(canonical_items) }
        objs == [company_line_item : asked,
                 raw_match : raw_headers \cup {NONE, AMBIG, Hallucinated}]
                  \cup [company_line_item : {StrayItem}, raw_match : raw_headers]
    IN  {Malformed} \cup
        { [ok |-> TRUE, arr |-> a] : a \in UNION { [1..n -> objs] : n \in 0..MaxArr } }

\* {d["company_line_item"]: d["raw_match"] for d in arr}: the last object of
\* a key decides
RECURSIVE DictOf(_, _)
DictOf(arr, acc) ==
    IF arr = << >> THEN acc
    ELSE LET d == Head(arr)
         IN  DictOf(Tail(arr),
                    [k \in DOMAIN acc \cup {d.company_line_item} |->
                        IF k = d.company_line_item THEN d.raw_match ELSE acc[k]])

\* a decoding that answers NONE where the text cannot be decoded
map_canonical_to_raw_none(canonical_items, resp) ==
    IF resp.ok THEN DictOf(resp.arr, << >>)
    ELSE [c \in { canonical_items[i] : i \in 1..Len(canonical_items) } |-> NONE]

\* the value map_canonical_to_raw returns for a response
map_canonical_to_raw(canonical_items, resp) ==
    IF resp.ok THEN DictOf(resp.arr, << >>)
    ELSE [c \in { canonical_items[i] : i \in 1..Len(canonical_items) } |-> LLM_ERROR]

\* ------------------------------------------------------------------------
\* process_company and handle_slice as coroutines
\* ------------------------------------------------------------------------
Tasks(sym) == { t \in DOMAIN task : t[1] = sym }

\* decoded: how the try block of map_canonical_to_raw ended for the slice
NewTask == [pc |-> "start", snapshot_date |-> None, variant_map |-> << >>,
            canonical_items |-> << >>, raw_headers |-> {}, mapped_lookup |-> {},
            llm_res |-> << >>, decoded |-> "pending"]

\* a start that goes on without lookup rows
ProcessCompanyStartNoSkip(sym) ==
    /\ co_pc[sym] = "pending"
    /\ LET lk == load_lookup(sym)
       IN  /\ co_pc' = [co_pc EXCEPT ![sym] = "gather"]
           /\ dated_snaps' = [dated_snaps EXCEPT ![sym] = lk.dated]
           /\ timeless' = [timeless EXCEPT ![sym] = lk.timeless]
           /\ slices' = [slices EXCEPT ![sym] = SlicesOf(sym)]
           /\ task' = [t \in DOMAIN task \cup { <<sym, k>> : k \in DOMAIN SlicesOf(sym) }
                         |-> IF t \in DOMAIN task THEN task[t] ELSE NewTask]
    /\ UNCHANGED <<sem, sem_waiters, map_rows, audit_rows, seen_map_keys>>
    /\ UNCHANGED <<datavars, storevars, csvars, mainvars, countvars>>

\* process_company up to its await of gather: load the lookup, gather the
\* slices, create one task per slice
ProcessCompanyStart(sym) ==
    /\ co_pc[sym] = "pending"
    /\ LET lk == load_lookup(sym)
       IN  IF lk.dated = << >> /\ lk.timeless = << >>
           THEN /\ co_pc' = [co_pc EXCEPT ![sym] = "skipped"]
                /\ UNCHANGED <<dated_snaps, timeless, slices, task>>
           ELSE /\ co_pc' = [co_pc EXCEPT ![sym] = "gather"]
                /\ dated_snaps' = [dated_snaps EXCEPT ![sym] = lk.dated]
                /\ timeless' = [timeless EXCEPT ![sym] = lk.timeless]
                /\ slices' = [slices EXCEPT ![sym] = SlicesOf(sym)]
                /\ task' = [t \in DOMAIN task \cup { <<sym, k>> : k \in DOMAIN SlicesOf(sym) }
                              |-> IF t \in DOMAIN task THEN task[t] ELSE NewTask]
    /\ UNCHANGED <<sem, sem_waiters, map_rows, audit_rows, seen_map_keys>>
    /\ UNCHANGED <<datavars, storevars, csvars, mainvars, countvars>>

\* the context of a slice once its snapshot is chosen
Context(sym, key, snapshot_date, variant_map, llm_res, csv) ==
    [symbol |-> sym, key |-> key, snapshot_date |-> snapshot_date,
     variant_map |-> variant_map, llm_res |-> llm_res, csv |-> csv]

\* handle_slice from its start to the await inside "async with sem": choose
\* the snapshot, match exactly, take a permit (or queue for one) and call the
\* LLM service.  The process_company tasks were created before any slice
\* task and run up to their gather without suspending, so every company has
\* started by the time a slice task runs.
SliceStart(sym, key) ==
    /\ <<sym, key>> \in DOMAIN task
    /\ task[<<sym, key>>].pc = "start"
    /\ \A s \in symbols : co_pc[s] # "pending"
    /\ LET chosen == IF DOMAIN dated_snaps[sym] # {}
                     THEN choose_snapshot(DOMAIN dated_snaps[sym], DateOf(key[1]))
                     ELSE Returned(None)
           variant_map == variant_map_of(dated_snaps[sym], timeless[sym], chosen.value)
           cx == Context(sym, key, chosen.value, variant_map, << >>, "")
           st == ExactPass([mapped_lookup |-> {}, seen |-> seen_map_keys[sym],
                            rows |-> map_rows[sym]],
                           slices[sym][key].headers, cx)
       IN  IF chosen.raised
           THEN /\ task' = [task EXCEPT ![<<sym, key>>].pc = "raised"]
                /\ UNCHANGED <<map_rows, seen_map_keys, sem, sem_waiters>>
           ELSE /\ map_rows' = [map_rows EXCEPT ![sym] = st.rows]
                /\ seen_map_keys' = [seen_map_keys EXCEPT ![sym] = st.seen]
                /\ IF sem[sym] > 0
                   THEN /\ sem' = [sem EXCEPT ![sym] = @ - 1]
                        /\ UNCHANGED sem_waiters
                   ELSE /\ sem_waiters' = [sem_waiters EXCEPT ![sym] = Append(@, key)]
                        /\ UNCHANGED sem
                /\ task' = [task EXCEPT ![<<sym, key>>] =
                              [pc |-> IF sem[sym] > 0 THEN "llm" ELSE "wait_sem",
                               snapshot_date |-> chosen.value,
                               variant_map |-> variant_map,
                               canonical_items |->
                                   canonical_items_of(dated_snaps[sym], timeless[sym],
                                                      chosen.value),
                               raw_headers |-> slices[sym][key].headers,
                               mapped_lookup |-> st.mapped_lookup,
                               llm_res |-> << >>,
                               decoded |-> "pending"]]
    /\ UNCHANGED <<co_pc, dated_snaps, timeless, slices, audit_rows>>
    /\ UNCHANGED <<datavars, storevars, csvars, mainvars, countvars>>

\* sem.release() at the end of "async with sem": the permit goes to the
\* first queued slice, which then calls the LLM service
Release(sym, tk) ==
    IF sem_waiters[sym] # << >>
    THEN /\ sem_waiters' = [sem_waiters EXCEPT ![sym] = Tail(@)]
         /\ task' = [tk EXCEPT ![<<sym, Head(sem_waiters[sym])>>].pc = "llm"]
         /\ UNCHANGED sem
    ELSE /\ sem' = [sem EXCEPT ![sym] = @ + 1]
         /\ task' = tk
         /\ UNCHANGED sem_waiters

\* handle_slice from the return of the LLM call to its end: decode the
\* answer, release the permit, go through the canonical items, then record
\* the unmapped headers and the missing lookup items.  Every task has run
\* its first step by then: the event loop runs the ready tasks in turn
\* before it takes the callback of a finished call.
SliceLLMReturn(sym, key) ==
    /\ <<sym, key>> \in DOMAIN task
    /\ task[<<sym, key>>].pc = "llm"
    /\ \A t \in DOMAIN task : task[t].pc # "start"
    /\ LET me == task[<<sym, key>>]
           canonical_items == me.canonical_items
           raw_headers == slices[sym][key].headers
       IN  \E resp \in Responses(canonical_items, me.raw_headers), csv \in slices[sym][key].csv :
             LET llm_res == map_canonical_to_raw(canonical_items, resp)
                 cx == Context(sym, key, me.snapshot_date, me.variant_map, llm_res, csv)
                 st == LLMPass([raised |-> FALSE, mapped_lookup |-> me.mapped_lookup,
                                seen |-> seen_map_keys[sym], rows |-> map_rows[sym],
                                audits |-> audit_rows[sym]],
                               canonical_items, cx)
                 tail == IF st.raised THEN EmptyBag
                         ELSE RawUnmappedRows(raw_headers, cx)
                                (+) ExpectedMissingRows(st.mapped_lookup, cx)
             IN  /\ map_rows' = [map_rows EXCEPT ![sym] = st.rows]
                 /\ audit_rows' = [audit_rows EXCEPT ![sym] = st.audits (+) tail]
                 /\ seen_map_keys' = [seen_map_keys EXCEPT ![sym] = st.seen]
                 /\ Release(sym, [task EXCEPT ![<<sym, key>>] =
                                    [me EXCEPT
                                       !.pc = IF st.raised THEN "raised" ELSE "done",
                                       !.mapped_lookup = st.mapped_lookup,
                                       !.llm_res = llm_res,
                                       !.decoded = IF resp.ok THEN "ok" ELSE "error"]])
    /\ UNCHANGED <<co_pc, dated_snaps, timeless, slices>>
    /\ UNCHANGED <<datavars, storevars, csvars, mainvars, countvars>>

\* the LLM call raises (service or network error): the await at l.164 is
\* outside the try, so the exception leaves map_canonical_to_raw and
\* handle_slice; "async with sem" releases the permit on the way out
SliceLLMRaise(sym, key) ==
    /\ <<sym, key>> \in DOMAIN task
    /\ task[<<sym, key>>].pc = "llm"
    /\ \A t \in DOMAIN task : task[t].pc # "start"
    /\ Release(sym, [task EXCEPT ![<<sym, key>>].pc = "raised"])
    /\ UNCHANGED <<co_pc, dated_snaps, timeless, slices, map_rows, audit_rows,
                   seen_map_keys>>
    /\ UNCHANGED <<datavars, storevars, csvars, mainvars, countvars>>

\* gather passes the first exception of a slice on to process_company, which
\* ends with it; the other slices of the company run on
GatherRaise(sym) ==
    /\ co_pc[sym] = "gather"
    /\ \E t \in Tasks(sym) : task[t].pc = "raised"
    /\ co_pc' = [co_pc EXCEPT ![sym] = "failed"]
    /\ UNCHANGED <<dated_snaps, timeless, slices, sem, sem_waiters, map_rows,
                   audit_rows, seen_map_keys, task>>
    /\ UNCHANGED <<datavars, storevars, csvars, mainvars, countvars>>

\* CREATE OR REPLACE TABLE jse_standardized_<SYMBOL>: the raw rows of the
\* symbol joined to this run's mappings on the slice key
Rebuild(sym, staging, run) ==
    { [raw |-> r, mapping |-> m] :
        r \in { x \in raw_rows : x.symbol = sym },
        m \in { x \in BagToSet(staging) :
                  /\ x.symbol = sym
                  /\ x.run_id = run } }

\* a join that takes the mappings of every run
StdTableAnyRun(sym, staging, run) ==
    { j \in { [raw |-> r, mapping |-> m] :
                r \in { x \in raw_rows : x.symbol = sym }, m \in BagToSet(staging) } :
        /\ j.raw.symbol = j.mapping.symbol
        /\ j.raw.line_item = j.mapping.raw_line_item
        /\ j.raw.report_date = j.mapping.report_date
        /\ j.raw.period = j.mapping.period
        /\ j.raw.period_type = j.mapping.period_type
        /\ j.raw.group_or_company_level = j.mapping.group_or_company_level }

StdTable(sym, staging, run) ==
    { j \in Rebuild(sym, staging, run) :
        /\ j.raw.symbol = j.mapping.symbol
        /\ j.raw.line_item = j.mapping.raw_line_item
        /\ j.raw.report_date = j.mapping.report_date
        /\ j.raw.period = j.mapping.period
        /\ j.raw.period_type = j.mapping.period_type
        /\ j.raw.group_or_company_level = j.mapping.group_or_company_level
        /\ j.mapping.run_id = run }

\* writes that do not wait for the slices
ProcessCompanyFinishEarly(sym) ==
    /\ co_pc[sym] = "gather"
    /\ co_pc' = [co_pc EXCEPT ![sym] = "done"]
    /\ staging_table' = staging_table (+) map_rows[sym]
    /\ audit_table' = audit_table (+) audit_rows[sym]
    /\ std_table' = [std_table EXCEPT ![sym] =
                        StdTable(sym, staging_table (+) map_rows[sym], RunId)]
    /\ UNCHANGED <<dated_snaps, timeless, slices, sem, sem_waiters, map_rows,
                   audit_rows, seen_map_keys, task>>
    /\ UNCHANGED <<datavars, csvars, mainvars, countvars>>

\* process_company after gather: append the mapping rows, append the audit
\* rows, rebuild the standardized table
ProcessCompanyFinish(sym) ==
    /\ co_pc[sym] = "gather"
    /\ \A t \in Tasks(sym) : task[t].pc = "done"
    /\ co_pc' = [co_pc EXCEPT ![sym] = "done"]
    /\ staging_table' = staging_table (+) map_rows[sym]
    /\ audit_table' = audit_table (+) audit_rows[sym]
    /\ std_table' = [std_table EXCEPT ![sym] =
                        StdTable(sym, staging_table (+) map_rows[sym], RunId)]
    /\ UNCHANGED <<dated_snaps, timeless, slices, sem, sem_waiters, map_rows,
                   audit_rows, seen_map_keys, task>>
    /\ UNCHANGED <<datavars, csvars, mainvars, countvars>>

\* ------------------------------------------------------------------------
\* The run of the engine on one company's tables
\* ------------------------------------------------------------------------
NotCalled == [called |-> FALSE, result |-> Returned(None)]

FnIdle == /\ fn_args = << >>
          /\ fn_result = << >>
          /\ fn_locals = << >>

CsIdle == /\ cs_dates = {}
          /\ cs_report_date = 0
          /\ cs_result = NotCalled
          /\ FnIdle

\* the slices are kept one by one, not counted
NotCounted == /\ unstarted = << >>
              /\ in_flight = << >>

Init ==
    /\ lookup_rows \in Lookups
    /\ raw_rows = RawTableABC
    /\ symbols = {"ABC"}
    /\ co_pc = [s \in symbols |-> "pending"]
    /\ dated_snaps = [s \in symbols |-> << >>]
    /\ timeless = [s \in symbols |-> << >>]
    /\ slices = [s \in symbols |-> << >>]
    /\ sem = [s \in symbols |-> CONCURRENCY]
    /\ sem_waiters = [s \in symbols |-> << >>]
    /\ map_rows = [s \in symbols |-> EmptyBag]
    /\ audit_rows = [s \in symbols |-> EmptyBag]
    /\ seen_map_keys = [s \in symbols |-> {}]
    /\ task = << >>
    /\ staging_table = EmptyBag
    /\ audit_table = EmptyBag
    /\ std_table = [s \in symbols |-> {}]
    /\ main_pc = "running"
    /\ args_symbol = ""
    /\ CsIdle
    /\ NotCounted

AllKeys == { <<r.report_date, r.period, r.period_type, r.group_or_company_level>>
             : r \in raw_rows }

CompanyStarts == \E sym \in symbols : ProcessCompanyStart(sym)
SliceStarts == \E sym \in symbols, key \in AllKeys : SliceStart(sym, key)
SliceLLMReturns == \E sym \in symbols, key \in AllKeys : SliceLLMReturn(sym, key)
SliceLLMRaises == \E sym \in symbols, key \in AllKeys : SliceLLMRaise(sym, key)
GatherRaises == \E sym \in symbols : GatherRaise(sym)
CompanyFinishes == \E sym \in symbols : ProcessCompanyFinish(sym)

Next ==
    \/ CompanyStarts
    \/ SliceStarts
    \/ SliceLLMReturns
    \/ SliceLLMRaises
    \/ GatherRaises
    \/ CompanyFinishes

Spec == Init /\ [][Next]_vars

\* ------------------------------------------------------------------------
\* main: a run over every company of the raw dataset
\* ------------------------------------------------------------------------
\* the raw tables of three companies; NOL has no row in the lookup table
RunLookup ==
    << LookupRow("ABC", NI, NP, None), LookupRow("XYZ", NI, NP, None) >>

RunRawTables ==
    { RawRow("ABC", Period1, "a.csv", RawNi),
      RawRow("ABC", Period2, "b.csv", RawNi),
      RawRow("XYZ", Period1, "x.csv", RawNp),
      RawRow("NOL", Period1, "n.csv", NE) }

\* what an earlier run left in the store
PriorRunId == "20231231T000000"

PriorMapRow ==
    [run_id |-> PriorRunId, symbol |-> "ABC", snapshot_date |-> None,
     report_date |-> Period1[1], period |-> Period1[2], period_type |-> Period1[3],
     group_or_company_level |-> Period1[4], raw_line_item |-> RawNi,
     company_line_item |-> NI, standardized_line_item |-> NP, match_type |-> "EXACT"]

PriorAuditRow ==
    [run_id |-> PriorRunId, symbol |-> "XYZ", csv_path |-> "x.csv",
     report_date |-> Period1[1], period |-> Period1[2], period_type |-> Period1[3],
     group_or_company_level |-> Period1[4], snapshot_date |-> None,
     company_line_item |-> NoneStr, standardized_line_item |-> NoneStr,
     status |-> RAW_UNMAPPED, llm_detail |-> RawNp, llm_sim |-> <<0, 1>>]

PriorStdTable(sym) == StdTable(sym, SetToBag({PriorMapRow}), PriorRunId)

\* recreate_staging: both tables are deleted and created again, empty
recreate_staging ==
    /\ staging_table' = EmptyBag
    /\ audit_table' = EmptyBag

\* main up to asyncio.run: recreate the staging tables, list the raw tables,
\* exit where --symbol names none of them, create one process_company task
\* per symbol
MainStart ==
    /\ main_pc = "idle"
    /\ recreate_staging
    /\ LET tables == { r.symbol : r \in raw_rows }
           exits == args_symbol # "" /\ args_symbol \notin tables
           syms == IF exits THEN {}
                   ELSE IF args_symbol # "" THEN {args_symbol} ELSE tables
       IN  /\ main_pc' = IF exits THEN "exited" ELSE "running"
           /\ symbols' = syms
           /\ co_pc' = [s \in syms |-> "pending"]
           /\ dated_snaps' = [s \in syms |-> << >>]
           /\ timeless' = [s \in syms |-> << >>]
           /\ slices' = [s \in syms |-> << >>]
           /\ sem' = [s \in syms |-> CONCURRENCY]
           /\ sem_waiters' = [s \in syms |-> << >>]
           /\ map_rows' = [s \in syms |-> EmptyBag]
           /\ audit_rows' = [s \in syms |-> EmptyBag]
           /\ seen_map_keys' = [s \in syms |-> {}]
    /\ UNCHANGED <<lookup_rows, raw_rows, task, std_table, args_symbol>>
    /\ UNCHANGED <<csvars, countvars>>

\* a task that has not ended yet
Unfinished(pc) == pc \in {"start", "llm", "wait_sem"}

\* runner's gather passes the first exception of a process_company on to
\* runner, which ends with it; asyncio.run then cancels every task that has
\* not ended and closes the loop
RunnerRaise ==
    /\ main_pc = "running"
    /\ \E sym \in symbols : co_pc[sym] = "failed"
    /\ main_pc' = "aborted"
    /\ co_pc' = [s \in symbols |->
                   IF co_pc[s] \in {"pending", "gather"} THEN "cancelled" ELSE co_pc[s]]
    /\ task' = [t \in DOMAIN task |->
                   IF Unfinished(task[t].pc)
                   THEN [task[t] EXCEPT !.pc = "cancelled"] ELSE task[t]]
    /\ UNCHANGED <<dated_snaps, timeless, slices, sem, sem_waiters, map_rows,
                   audit_rows, seen_map_keys, args_symbol>>
    /\ UNCHANGED <<datavars, storevars, csvars, countvars>>

\* every process_company has returned: runner returns, main logs DONE
MainDone ==
    /\ main_pc = "running"
    /\ \A sym \in symbols : co_pc[sym] \in {"done", "skipped"}
    /\ main_pc' = "done"
    /\ UNCHANGED <<datavars, covars, task, storevars, csvars, countvars, args_symbol>>

\* the store and the tables a run finds
RunFinds ==
    /\ lookup_rows = RunLookup
    /\ raw_rows = RunRawTables
    /\ symbols = {}
    /\ co_pc = << >>
    /\ dated_snaps = << >>
    /\ timeless = << >>
    /\ slices = << >>
    /\ sem = << >>
    /\ sem_waiters = << >>
    /\ map_rows = << >>
    /\ audit_rows = << >>
    /\ seen_map_keys = << >>
    /\ task = << >>
    /\ staging_table = SetToBag({PriorMapRow})
    /\ audit_table = SetToBag({PriorAuditRow})
    /\ std_table = [s \in {"ABC", "XYZ", "NOL"} |-> PriorStdTable(s)]
    /\ main_pc = "idle"
    /\ CsIdle
    /\ NotCounted

\* a run without --symbol
RunInit ==
    /\ RunFinds
    /\ args_symbol = ""

RunNext ==
    \/ MainStart
    \/ CompanyStarts
    \/ SliceStarts
    \/ SliceLLMReturns
    \/ SliceLLMRaises
    \/ GatherRaises
    \/ CompanyFinishes
    \/ RunnerRaise
    \/ MainDone

RunSpec == RunInit /\ [][RunNext]_vars

\* ------------------------------------------------------------------------
\* main with --symbol, against a store whose jobs may fail
\* ------------------------------------------------------------------------
\* process_company after gather where a job of the store raises: the load of
\* the mapping rows, the load of the audit rows, or the rebuild.  What the
\* jobs before it wrote stays; the exception ends process_company.
ProcessCompanyFinishFails(sym, job) ==
    /\ co_pc[sym] = "gather"
    /\ \A t \in Tasks(sym) : task[t].pc = "done"
    /\ job = "mapping" => map_rows[sym] # EmptyBag
    /\ job = "audit" => audit_rows[sym] # EmptyBag
    /\ co_pc' = [co_pc EXCEPT ![sym] = "failed"]
    /\ staging_table' = IF job = "mapping" THEN staging_table
                        ELSE staging_table (+) map_rows[sym]
    /\ audit_table' = IF job = "rebuild" THEN audit_table (+) audit_rows[sym]
                      ELSE audit_table
    /\ UNCHANGED std_table
    /\ UNCHANGED <<dated_snaps, timeless, slices, sem, sem_waiters, map_rows,
                   audit_rows, seen_map_keys, task>>
    /\ UNCHANGED <<datavars, csvars, mainvars, countvars>>

CompanyFinishFailures ==
    \E sym \in symbols, job \in {"mapping", "audit", "rebuild"} :
        ProcessCompanyFinishFails(sym, job)

\* --symbol names a raw table, or none
StoreInit ==
    /\ RunFinds
    /\ args_symbol \in {"ABC", "QQQ"}

StoreNext ==
    \/ MainStart
    \/ CompanyStarts
    \/ SliceStarts
    \/ SliceLLMReturns
    \/ SliceLLMRaises
    \/ GatherRaises
    \/ CompanyFinishes
    \/ CompanyFinishFailures
    \/ RunnerRaise
    \/ MainDone

StoreSpec == StoreInit /\ [][StoreNext]_vars

\* ------------------------------------------------------------------------
\* The semaphores on their own: the slices of a company are counted, their
\* rows left out
\* ------------------------------------------------------------------------
\* how many slices the raw table of each company holds
SliceCount == [s \in {"ABC", "XYZ"} |-> IF s = "ABC" THEN ManySlices ELSE FewSlices]

\* process_company up to gather: sem = asyncio.Semaphore(CONCURRENCY), one
\* task per slice
CompanyStartCounted(sym) ==
    /\ co_pc[sym] = "pending"
    /\ co_pc' = [co_pc EXCEPT ![sym] = "gather"]
    /\ sem' = [sem EXCEPT ![sym] = CONCURRENCY]
    /\ unstarted' = [unstarted EXCEPT ![sym] = SliceCount[sym]]
    /\ UNCHANGED <<sem_waiters, in_flight>>
    /\ UNCHANGED <<dated_snaps, timeless, slices, map_rows, audit_rows, seen_map_keys>>
    /\ UNCHANGED <<datavars, task, storevars, csvars, mainvars>>

\* a slice task runs up to "async with sem": it takes a permit of its
\* company's semaphore and calls the LLM service, or queues for a permit
AcquireCounted(sym) ==
    /\ co_pc[sym] = "gather"
    /\ unstarted[sym] > 0
    /\ \A s \in symbols : co_pc[s] # "pending"
    /\ unstarted' = [unstarted EXCEPT ![sym] = @ - 1]
    /\ IF sem[sym] > 0
       THEN /\ sem' = [sem EXCEPT ![sym] = @ - 1]
            /\ in_flight' = [in_flight EXCEPT ![sym] = @ + 1]
            /\ UNCHANGED sem_waiters
       ELSE /\ sem_waiters' = [sem_waiters EXCEPT ![sym] = Append(@, unstarted[sym])]
            /\ UNCHANGED <<sem, in_flight>>
    /\ UNCHANGED <<co_pc, dated_snaps, timeless, slices, map_rows, audit_rows,
                   seen_map_keys>>
    /\ UNCHANGED <<datavars, task, storevars, csvars, mainvars>>

\* an LLM call ends (it returns or raises) and its slice leaves "async with
\* sem": the permit goes to the first queued slice, which calls the LLM
\* service, or back to the semaphore
ReleaseCounted(sym) ==
    /\ in_flight[sym] > 0
    /\ \A s \in symbols : unstarted[s] = 0
    /\ IF sem_waiters[sym] # << >>
       THEN /\ sem_waiters' = [sem_waiters EXCEPT ![sym] = Tail(@)]
            /\ UNCHANGED <<sem, in_flight>>
       ELSE /\ sem' = [sem EXCEPT ![sym] = @ + 1]
            /\ in_flight' = [in_flight EXCEPT ![sym] = @ - 1]
            /\ UNCHANGED sem_waiters
    /\ UNCHANGED <<co_pc, unstarted, dated_snaps, timeless, slices, map_rows,
                   audit_rows, seen_map_keys>>
    /\ UNCHANGED <<datavars, task, storevars, csvars, mainvars>>

\* gather returns once every slice of the company has ended
CompanyFinishCounted(sym) ==
    /\ co_pc[sym] = "gather"
    /\ unstarted[sym] = 0 /\ in_flight[sym] = 0 /\ sem_waiters[sym] = << >>
    /\ co_pc' = [co_pc EXCEPT ![sym] = "done"]
    /\ UNCHANGED <<sem, sem_waiters, unstarted, in_flight>>
    /\ UNCHANGED <<dated_snaps, timeless, slices, map_rows, audit_rows, seen_map_keys>>
    /\ UNCHANGED <<datavars, task, storevars, csvars, mainvars>>

SemInit ==
    /\ lookup_rows = << >>
    /\ raw_rows = {}
    /\ symbols = {"ABC", "XYZ"}
    /\ co_pc = [s \in symbols |-> "pending"]
    /\ sem = [s \in symbols |-> 0]
    /\ sem_waiters = [s \in symbols |-> << >>]
    /\ unstarted = [s \in symbols |-> 0]
    /\ in_flight = [s \in symbols |-> 0]
    /\ dated_snaps = << >>
    /\ timeless = << >>
    /\ slices = << >>
    /\ map_rows = << >>
    /\ audit_rows = << >>
    /\ seen_map_keys = << >>
    /\ task = << >>
    /\ staging_table = EmptyBag
    /\ audit_table = EmptyBag
    /\ std_table = << >>
    /\ main_pc = "running"
    /\ args_symbol = ""
    /\ CsIdle

CompanyStartsCounted == \E sym \in symbols : CompanyStartCounted(sym)
AcquiresCounted == \E sym \in symbols : AcquireCounted(sym)
ReleasesCounted == \E sym \in symbols : ReleaseCounted(sym)
CompanyFinishesCounted == \E sym \in symbols : CompanyFinishCounted(sym)

SemNext ==
    \/ CompanyStartsCounted
    \/ AcquiresCounted
    \/ ReleasesCounted
    \/ CompanyFinishesCounted

SemSpec == SemInit /\ [][SemNext]_vars

\* ------------------------------------------------------------------------
\* process_company on a vocabulary whose entries collide
\* ------------------------------------------------------------------------
\* the snapshot variant "Ni" of canonical Np and the timeless variant "n'i"
\* of canonical Ta have the same normalized form
LookupCollision ==
    << LookupRow("ABC", NI, NP, 10), LookupRow("ABC", RawNi, TA, None) >>

\* the timeless variant "N-p" of canonical Ta has the normalized form of the
\* canonical name Np of the snapshot
LookupNameCollision ==
    << LookupRow("ABC", NI, NP, 10), LookupRow("ABC", RawNp, TA, None) >>

\* a canonical name of white space only
LookupBlankCanonical ==
    << LookupRow("ABC", NI, <<" ">>, None) >>

VocabLookups == {LookupCollision, LookupNameCollision, LookupBlankCanonical}

VocabInit ==
    /\ lookup_rows \in VocabLookups
    /\ raw_rows = RawTableABC
    /\ symbols = {"ABC"}
    /\ co_pc = [s \in symbols |-> "pending"]
    /\ dated_snaps = [s \in symbols |-> << >>]
    /\ timeless = [s \in symbols |-> << >>]
    /\ slices = [s \in symbols |-> << >>]
    /\ sem = [s \in symbols |-> CONCURRENCY]
    /\ sem_waiters = [s \in symbols |-> << >>]
    /\ map_rows = [s \in symbols |-> EmptyBag]
    /\ audit_rows = [s \in symbols |-> EmptyBag]
    /\ seen_map_keys = [s \in symbols |-> {}]
    /\ task = << >>
    /\ staging_table = EmptyBag
    /\ audit_table = EmptyBag
    /\ std_table = [s \in symbols |-> {}]
    /\ main_pc = "running"
    /\ args_symbol = ""
    /\ CsIdle
    /\ NotCounted

VocabSpec == VocabInit /\ [][Next]_vars

\* ------------------------------------------------------------------------
\* The rebuild of a standardized table on its own: every mapping table of at
\* most MaxStaged rows
\* ------------------------------------------------------------------------
\* mapping rows of two runs, two companies, two slices and two headers
StagedRows ==
    { MapRow(run, sym, None, key, raw, NI, NP, "EXACT") :
        run \in {RunId, PriorRunId}, sym \in {"ABC", "XYZ"},
        key \in {Period1, Period2}, raw \in {RawNi, RawNp} }

RebuildInit ==
    /\ staging_table \in { SetToBag(S) : S \in { T \in SUBSET StagedRows :
                                                   Cardinality(T) <= MaxStaged } }
    /\ raw_rows = RunRawTables
    /\ symbols = {"ABC", "XYZ"}
    /\ co_pc = [s \in symbols |-> "gather"]
    /\ std_table = [s \in symbols |-> {}]
    /\ lookup_rows = << >>
    /\ dated_snaps = << >>
    /\ timeless = << >>
    /\ slices = << >>
    /\ sem = << >>
    /\ sem_waiters = << >>
    /\ map_rows = << >>
    /\ audit_rows = << >>
    /\ seen_map_keys = << >>
    /\ task = << >>
    /\ audit_table = EmptyBag
    /\ main_pc = "running"
    /\ args_symbol = ""
    /\ CsIdle
    /\ NotCounted

\* the CREATE OR REPLACE TABLE statement at the end of process_company
RebuildStandardized(sym) ==
    /\ co_pc[sym] = "gather"
    /\ co_pc' = [co_pc EXCEPT ![sym] = "done"]
    /\ std_table' = [std_table EXCEPT ![sym] = StdTable(sym, staging_table, RunId)]
    /\ UNCHANGED <<staging_table, audit_table>>
    /\ UNCHANGED <<dated_snaps, timeless, slices, sem, sem_waiters, map_rows,
                   audit_rows, seen_map_keys, task>>
    /\ UNCHANGED <<datavars, csvars, mainvars, countvars>>

RebuildNext == \E sym \in symbols : RebuildStandardized(sym)

RebuildSpec == RebuildInit /\ [][RebuildNext]_vars

\* ------------------------------------------------------------------------
\* Everything but the function called on its own is idle
\* ------------------------------------------------------------------------
ProgramIdle ==
    /\ lookup_rows = << >>
    /\ raw_rows = {}
    /\ symbols = {}
    /\ co_pc = << >>
    /\ dated_snaps = << >>
    /\ timeless = << >>
    /\ slices = << >>
    /\ sem = << >>
    /\ sem_waiters = << >>
    /\ map_rows = << >>
    /\ audit_rows = << >>
    /\ seen_map_keys = << >>
    /\ task = << >>
    /\ staging_table = EmptyBag
    /\ audit_table = EmptyBag
    /\ std_table = << >>
    /\ main_pc = "idle"
    /\ args_symbol = ""
    /\ cs_dates = {}
    /\ cs_report_date = 0
    /\ cs_result = NotCalled
    /\ NotCounted

programvars == <<datavars, covars, task, storevars, cs_dates, cs_report_date,
                 cs_result, mainvars, countvars>>

\* ------------------------------------------------------------------------
\* norm on its own: every string of at most MaxStr characters, normalised
\* and normalised again
\* ------------------------------------------------------------------------
\* an upper-case and a lower-case letter, the three characters NORMALISE_RE
\* removes, and one that stays
NormAlphabet == {"N", "n", " ", "-", "'", "/"}

RECURSIVE StringsUpTo(_, _)
StringsUpTo(alphabet, n) ==
    IF n = 0 THEN { << >> }
    ELSE LET shorter == StringsUpTo(alphabet, n - 1)
         IN  shorter \cup { Append(t, c) : t \in shorter, c \in alphabet }

NormInit ==
    /\ fn_locals = << >>
    /\ fn_args \in StringsUpTo(NormAlphabet, MaxStr)
    /\ fn_result = << >>
    /\ ProgramIdle

\* norm(s), then norm of what that gave
CallNorm ==
    /\ Len(fn_result) < 2
    /\ fn_result' = Append(fn_result,
                           norm(IF fn_result = << >> THEN fn_args
                                ELSE fn_result[Len(fn_result)]))
    /\ UNCHANGED <<fn_args, fn_locals, programvars>>

NormNext == CallNorm

NormSpec == NormInit /\ [][NormNext]_vars

\* ------------------------------------------------------------------------
\* Fiscal years (fin_stat_meta/migrate_to_bigquery.py).  Dates are day
\* numbers counted from 1900-01-01, a calendar year has DaysPerYear days,
\* NaT is None.
\* ------------------------------------------------------------------------
\* pd.Timestamp('1900-01-01')
min_date == 0
DaysPerYear == 2
\* Timestamp.year
YearOf(d) == 1900 + (d \div DaysPerYear)

AUDITED == <<"a","u","d","i","t","e","d">>
AuditedType == <<"A","u","d","i","t","e","d">>
UnauditedType == <<"u","n","a","u","d","i","t","e","d">>

\* the symbols in the order sort_values gives them
FySymbols == <<"ABC", "XYZ">>

StatementRow(symbol, statement_type, reference_date, period_end_date) ==
    [symbol |-> symbol, statement_type |-> statement_type,
     reference_date |-> reference_date, period_end_date |-> period_end_date]

\* the unique audited dates of one symbol, sorted
FyDates(df, symbol) ==
    SortedSeq({ r.reference_date :
                  r \in { x \in df : /\ lower(x.statement_type) = AUDITED
                                     /\ x.symbol = symbol
                                     /\ x.reference_date # None } })

\* the rows of the lookup table of one symbol: shift(1) + one day, or
\* min_date for the first; end_range the audited date; fiscal_year its year
FyRanges(df, symbol) ==
    LET ds == FyDates(df, symbol)
    IN  [i \in 1..Len(ds) |->
            [symbol |-> symbol,
             fiscal_year |-> YearOf(ds[i]),
             start_range |-> IF i = 1 THEN min_date ELSE ds[i - 1] + 1,
             end_range |-> ds[i]]]

RECURSIVE ConcatRanges(_, _)
ConcatRanges(df, syms) ==
    IF syms = << >> THEN << >>
    ELSE FyRanges(df, Head(syms)) \o ConcatRanges(df, Tail(syms))

build_fiscal_year_lookup(df) == ConcatRanges(df, FySymbols)

\* a match that takes reference_date >= start_range
AssignRowInclusive(r, lookup_table) ==
    LET symbol_lookup == SelectSeq(lookup_table, LAMBDA l : l.symbol = r.symbol)
        match == SelectSeq(symbol_lookup,
                           LAMBDA l : /\ r.reference_date >= l.start_range
                                      /\ r.reference_date <= l.end_range)
        unassigned == r @@ [fiscal_year |-> None]
    IN  IF symbol_lookup = << >> THEN unassigned
        ELSE IF r.reference_date = None THEN unassigned
        ELSE IF match = << >> THEN unassigned
        ELSE [r EXCEPT !.period_end_date =
                          IF r.period_end_date = None THEN match[1].end_range
                          ELSE r.period_end_date]
                @@ [fiscal_year |-> match[1].fiscal_year]

\* the body of the loops of assign_fiscal_year for one row
AssignRow(r, lookup_table) ==
    LET symbol_lookup == SelectSeq(lookup_table, LAMBDA l : l.symbol = r.symbol)
        match == SelectSeq(symbol_lookup,
                           LAMBDA l : /\ r.reference_date > l.start_range
                                      /\ r.reference_date <= l.end_range)
        unassigned == r @@ [fiscal_year |-> None]
    IN  IF symbol_lookup = << >> THEN unassigned
        ELSE IF r.reference_date = None THEN unassigned
        ELSE IF match = << >> THEN unassigned
        ELSE [r EXCEPT !.period_end_date =
                          IF r.period_end_date = None THEN match[1].end_range
                          ELSE r.period_end_date]
                @@ [fiscal_year |-> match[1].fiscal_year]

\* the frame assign_fiscal_year returns, by the row it was made from
assign_fiscal_year(df, lookup_table) ==
    [r \in df |-> AssignRow(r, lookup_table)]

\* records of one company of every kind, audited records of another
FyRows ==
    { StatementRow("ABC", t, d, e) :
        t \in {AuditedType, UnauditedType}, d \in {None} \cup (0..MaxDay),
        e \in {None, 1} }
    \cup { StatementRow("XYZ", AuditedType, d, None) : d \in {None} \cup (0..MaxDay) }

RECURSIVE SubsetsUpTo(_, _)
SubsetsUpTo(S, n) ==
    IF n = 0 THEN { {} }
    ELSE LET smaller == SubsetsUpTo(S, n - 1)
         IN  smaller \cup { T \cup {x} : T \in smaller, x \in S }

FyInit ==
    /\ fn_locals = << >>
    /\ fn_args \in SubsetsUpTo(FyRows, MaxRecords)
    /\ fn_result = << >>
    /\ ProgramIdle

\* the two calls of the migration: the lookup, then the assignment
CallAssignFiscalYear ==
    /\ fn_result = << >>
    /\ fn_result' = <<assign_fiscal_year(fn_args, build_fiscal_year_lookup(fn_args))>>
    /\ UNCHANGED <<fn_args, fn_locals, programvars>>

FyNext == CallAssignFiscalYear

FySpec == FyInit /\ [][FyNext]_vars

\* ------------------------------------------------------------------------
\* validate_quarter_chronological_order on its own
\* ------------------------------------------------------------------------
\* a period_quarter that is null
NoQuarter == "NaN"

quarter_order == [q \in {"Q1", "Q2", "Q3", "Q4", "FY"} |->
                    CASE q = "Q1" -> 1 [] q = "Q2" -> 2 [] q = "Q3" -> 3
                      [] q = "Q4" -> 4 [] q = "FY" -> 5]

QuarterRow(symbol, fiscal_year, period_quarter, reference_date) ==
    [symbol |-> symbol, fiscal_year |-> fiscal_year,
     period_quarter |-> period_quarter, reference_date |-> reference_date]

\* df[mask]: fiscal_year, period_quarter and reference_date all non-null
Filtered(df) ==
    { r \in df : /\ r.fiscal_year # None
                 /\ r.period_quarter # NoQuarter
                 /\ r.reference_date # None }

\* groupby(symbol, fiscal_year, period_quarter).min(): the quarters of one
\* (symbol, fiscal_year) that quarter_order knows, each with its earliest date
GroupOf(df, symbol, fiscal_year) ==
    LET rows == { r \in Filtered(df) : /\ r.symbol = symbol
                                       /\ r.fiscal_year = fiscal_year }
        known == { r.period_quarter : r \in rows } \cap DOMAIN quarter_order
    IN  [q \in known |->
            LET ds == { r.reference_date :
                          r \in { x \in rows : x.period_quarter = q } }
            IN  CHOOSE d \in ds : \A x \in ds : d <= x]

\* the quarters of a group sorted by sort_key
RECURSIVE SortedQuarters(_)
SortedQuarters(Q) ==
    IF Q = {} THEN << >>
    ELSE LET q == CHOOSE x \in Q : \A y \in Q : quarter_order[x] <= quarter_order[y]
         IN  <<q>> \o SortedQuarters(Q \ {q})

\* the violations of one (symbol, fiscal_year): the consecutive pairs
GroupViolations(df, symbol, fiscal_year) ==
    LET group == GroupOf(df, symbol, fiscal_year)
        quarters == SortedQuarters(DOMAIN group)
        dates == [i \in 1..Len(quarters) |-> group[quarters[i]]]
        Violation(i, type) ==
            [symbol |-> symbol, fiscal_year |-> fiscal_year,
             earlier_quarter |-> quarters[i], earlier_date |-> dates[i],
             later_quarter |-> quarters[i + 1], later_date |-> dates[i + 1],
             violation_type |-> type]
    IN  IF Len(quarters) < 2 THEN {}
        ELSE { Violation(i, "FY_BEFORE_QUARTER") :
                 i \in { k \in 1..(Len(quarters) - 1) :
                           /\ quarters[k + 1] = "FY"
                           /\ dates[k + 1] < dates[k] } }
             \cup
             { Violation(i, "QUARTER_ORDER") :
                 i \in { k \in 1..(Len(quarters) - 1) :
                           /\ quarters[k + 1] # "FY"
                           /\ dates[k] >= dates[k + 1] } }

\* the rows of the frame of violations
validate_quarter_chronological_order(df) ==
    UNION { GroupViolations(df, r.symbol, r.fiscal_year) : r \in Filtered(df) }

\* the five quarters of one fiscal year on every date; a record of another
\* year, of another company, of a quarter the order does not know, and
\* records with a null fiscal year, quarter or date
QuarterRows ==
    { QuarterRow("ABC", 1900, q, d) : q \in DOMAIN quarter_order, d \in 0..MaxQDate }
    \cup { QuarterRow("ABC", 1901, "Q1", 1), QuarterRow("ABC", 1901, "Q2", 0),
           QuarterRow("XYZ", 1900, "Q1", 2), QuarterRow("ABC", 1900, "H1", 0),
           QuarterRow("ABC", None, "Q1", 2), QuarterRow("ABC", 1900, NoQuarter, 0),
           QuarterRow("ABC", 1900, "Q1", None) }

ValidateInit ==
    /\ fn_locals = << >>
    /\ fn_args \in SubsetsUpTo(QuarterRows, MaxRecords)
    /\ fn_result = << >>
    /\ ProgramIdle

CallValidate ==
    /\ fn_result = << >>
    /\ fn_result' = <<validate_quarter_chronological_order(fn_args)>>
    /\ UNCHANGED <<fn_args, fn_locals, programvars>>

ValidateNext == CallValidate

ValidateSpec == ValidateInit /\ [][ValidateNext]_vars

\* ------------------------------------------------------------------------
\* standardize_item_variations (standardize_acct_items.py) on its own.
\* Times count TicksPerSecond ticks per second.
\* ------------------------------------------------------------------------
TicksPerSecond == 10

Min(a, b) == IF a <= b THEN a ELSE b

ContextItem(line_item, statement) == [line_item |-> line_item, statement |-> statement]

\* the batches of one report
Batches ==
    { {ContextItem("Sales", "income")},
      {ContextItem("Sales", "income"), ContextItem("Cash", "balance")} }

StdEntry(original_item, standardized_name, confidence) ==
    [original_item |-> original_item, standardized_name |-> standardized_name,
     confidence |-> confidence, reasoning |-> "income statement"]

\* what an attempt can meet: the call raises, the response has no text, the
\* text is not JSON, or it is a JSON object with a standardizations array
LLMOutcomes ==
    { [kind |-> "raise", standardizations |-> << >>],
      [kind |-> "empty", standardizations |-> << >>],
      [kind |-> "invalid", standardizations |-> << >>],
      [kind |-> "json", standardizations |-> << >>],
      [kind |-> "json", standardizations |-> <<StdEntry("Sales", "Revenue", "high")>>],
      [kind |-> "json", standardizations |-> <<StdEntry("Sales", "Revenue", "high"),
                                               StdEntry("", "Other", "low")>>] }

\* the array turned into a dictionary; entries without original_item are
\* skipped, a later entry replaces an earlier one
RECURSIVE ParseStandardizations(_)
ParseStandardizations(list) ==
    IF list = << >> THEN << >>
    ELSE LET n == Len(list)
             item == list[n]
             before == ParseStandardizations(SubSeq(list, 1, n - 1))
         IN  IF item.original_item = "" THEN before
             ELSE (item.original_item :>
                      [standardized_name |-> item.standardized_name,
                       confidence |-> item.confidence,
                       reasoning |-> item.reasoning])
                  @@ before

\* the dictionary returned after the last failed attempt
Fallback(items_with_context) ==
    [line_item \in { item.line_item : item \in items_with_context } |->
        [standardized_name |-> "Other", confidence |-> "low",
         reasoning |-> "Error during standardization"]]

RetryInit ==
    /\ fn_args \in Batches
    /\ fn_result = << >>
    /\ fn_locals = [retry_count |-> 0,
                    backoff |-> INITIAL_BACKOFF * TicksPerSecond,
                    attempts |-> << >>,
                    sleeps |-> << >>]
    /\ ProgramIdle

\* one pass of the loop whose response parses: the function returns
AttemptSucceeds(response) ==
    /\ fn_result = << >>
    /\ fn_locals.retry_count < MAX_RETRIES
    /\ response.kind = "json"
    /\ fn_locals' = [fn_locals EXCEPT !.attempts = Append(@, response)]
    /\ fn_result' = <<ParseStandardizations(response.standardizations)>>
    /\ UNCHANGED <<fn_args, programvars>>

\* a handler without the test of retry_count against MAX_RETRIES: it sleeps
\* after every failure, and the loop ends without a return statement
AttemptFailsNoCeiling(response, jitter) ==
    /\ fn_result = << >>
    /\ fn_locals.retry_count < MAX_RETRIES
    /\ response.kind # "json"
    /\ LET retry_count == fn_locals.retry_count + 1
           sleep_time == Min(fn_locals.backoff + jitter, MAX_BACKOFF * TicksPerSecond)
       IN  /\ fn_locals' = [retry_count |-> retry_count,
                            backoff |-> Min(fn_locals.backoff * 2,
                                            MAX_BACKOFF * TicksPerSecond),
                            attempts |-> Append(fn_locals.attempts, response),
                            sleeps |-> Append(fn_locals.sleeps, sleep_time)]
           /\ fn_result' = IF retry_count < MAX_RETRIES THEN << >> ELSE <<NoneStr>>
    /\ UNCHANGED <<fn_args, programvars>>

\* one pass of the loop that ends in the except clause: the fallback after
\* the last attempt, otherwise the sleep and the doubled backoff
AttemptFails(response, jitter) ==
    /\ fn_result = << >>
    /\ fn_locals.retry_count < MAX_RETRIES
    /\ response.kind # "json"
    /\ LET retry_count == fn_locals.retry_count + 1
           sleep_time == Min(fn_locals.backoff + jitter, MAX_BACKOFF * TicksPerSecond)
       IN  IF retry_count = MAX_RETRIES
           THEN /\ fn_locals' = [fn_locals EXCEPT !.retry_count = retry_count,
                                                  !.attempts = Append(@, response)]
                /\ fn_result' = <<Fallback(fn_args)>>
           ELSE /\ fn_locals' = [retry_count |-> retry_count,
                                 backoff |-> Min(fn_locals.backoff * 2,
                                                 MAX_BACKOFF * TicksPerSecond),
                                 attempts |-> Append(fn_locals.attempts, response),
                                 sleeps |-> Append(fn_locals.sleeps, sleep_time)]
                /\ fn_result' = << >>
    /\ UNCHANGED <<fn_args, programvars>>

\* random.uniform(0, 0.1 * backoff): its two ends
Jitters == {0, fn_locals.backoff \div 10}

AttemptsSucceed == \E response \in LLMOutcomes : AttemptSucceeds(response)

AttemptsFail == \E response \in LLMOutcomes : \E jitter \in Jitters :
                    AttemptFails(response, jitter)

RetryNext == AttemptsSucceed \/ AttemptsFail

RetrySpec == RetryInit /\ [][RetryNext]_vars

\* every await of the loop returns or raises, and the sleep ends
RetryLiveSpec == RetrySpec /\ WF_vars(RetryNext)

\* ------------------------------------------------------------------------
\* select_best_standardization (standardize_acct_items.py) on its own.  A
\* dictionary is the sequence of its entries in insertion order.
\* ------------------------------------------------------------------------
Sales == <<"S","a","l","e","s">>
Costs == <<"C","o","s","t","s">>
NetSales == <<"N","e","t"," ","S","a","l","e","s">>

confidence_order == [c \in {"high", "medium", "low"} |->
                        CASE c = "high" -> 3 [] c = "medium" -> 2 [] c = "low" -> 1]

DictEntry(original_item, standardized_name, confidence) ==
    [original_item |-> original_item,
     std |-> [standardized_name |-> standardized_name, confidence |-> confidence]]

\* every dictionary of at most n entries over the three names
RECURSIVE DictsUpTo(_)
DictsUpTo(n) ==
    IF n = 0 THEN { << >> }
    ELSE LET shorter == DictsUpTo(n - 1)
         IN  shorter \cup
             { Append(d, DictEntry(name, category, confidence)) :
                 d \in shorter,
                 name \in {Sales, Costs, NetSales},
                 category \in {"Revenue", "Other"},
                 confidence \in DOMAIN confidence_order }

UniqueKeys(d) == \A i, j \in 1..Len(d) : d[i].original_item = d[j].original_item => i = j

\* the sort key of an entry: (confidence_order.get(confidence, 0), len(name))
SortKey(entry) ==
    <<IF entry.std.confidence \in DOMAIN confidence_order
      THEN confidence_order[entry.std.confidence] ELSE 0,
      Len(entry.original_item)>>

\* tuple comparison of two sort keys
KeyLess(a, b) == \/ a[1] < b[1]
                 \/ a[1] = b[1] /\ a[2] < b[2]

\* sorted(items, key=..., reverse=True)[0]: the greatest key, the first in
\* the list among equal keys
SortedFirst(items) ==
    LET i == CHOOSE k \in 1..Len(items) :
                 /\ \A j \in 1..Len(items) : ~KeyLess(SortKey(items[k]), SortKey(items[j]))
                 /\ \A j \in 1..(k - 1) : KeyLess(SortKey(items[j]), SortKey(items[k]))
    IN  items[i]

select_best_standardization(standardizations) ==
    LET categories == { standardizations[i].std.standardized_name :
                          i \in 1..Len(standardizations) }
        by_category == [c \in categories |->
                           SelectSeq(standardizations,
                                     LAMBDA e : e.std.standardized_name = c)]
        best == { SortedFirst(by_category[c]) : c \in categories }
    IN  [original \in { e.original_item : e \in best } |->
            (CHOOSE e \in best : e.original_item = original).std]

SelectInit ==
    /\ fn_args \in { d \in DictsUpTo(MaxItems) : UniqueKeys(d) }
    /\ fn_result = << >>
    /\ fn_locals = << >>
    /\ ProgramIdle

CallSelectBest ==
    /\ fn_result = << >>
    /\ fn_result' = <<select_best_standardization(fn_args)>>
    /\ UNCHANGED <<fn_args, fn_locals, programvars>>

SelectNext == CallSelectBest

SelectSpec == SelectInit /\ [][SelectNext]_vars

\* ------------------------------------------------------------------------
\* choose_snapshot on its own: every set of dates, every report date
\* ------------------------------------------------------------------------
SnapInit ==
    /\ cs_dates \in SUBSET (1..MaxDate)
    /\ cs_report_date \in 0..(MaxDate + 1)
    /\ cs_result = NotCalled
    /\ FnIdle
    /\ lookup_rows = << >>
    /\ raw_rows = {}
    /\ symbols = {}
    /\ co_pc = << >>
    /\ dated_snaps = << >>
    /\ timeless = << >>
    /\ slices = << >>
    /\ sem = << >>
    /\ sem_waiters = << >>
    /\ map_rows = << >>
    /\ audit_rows = << >>
    /\ seen_map_keys = << >>
    /\ task = << >>
    /\ staging_table = EmptyBag
    /\ audit_table = EmptyBag
    /\ std_table = << >>
    /\ main_pc = "idle"
    /\ args_symbol = ""
    /\ NotCounted

CallChooseSnapshot ==
    /\ ~cs_result.called
    /\ cs_result' = [called |-> TRUE,
                     result |-> choose_snapshot(cs_dates, cs_report_date)]
    /\ UNCHANGED <<cs_dates, cs_report_date, fnvars>>
    /\ UNCHANGED <<datavars, covars, task, storevars, mainvars, countvars>>

SnapNext == CallChooseSnapshot

SnapSpec == SnapInit /\ [][SnapNext]_vars

\* ------------------------------------------------------------------------
\* Reading the rows
\* ------------------------------------------------------------------------
RECURSIVE SumCopies(_, _)
SumCopies(S, bag) ==
    IF S = {} THEN 0
    ELSE LET x == CHOOSE y \in S : TRUE
         IN  CopiesIn(x, bag) + SumCopies(S \ {x}, bag)

\* how many rows of a bag pass a test
Count(bag, Test(_)) == SumCopies({ x \in BagToSet(bag) : Test(x) }, bag)

SliceKeyOf(r) == <<r.report_date, r.period, r.period_type, r.group_or_company_level>>

RowKeyOf(r) == <<r.raw_line_item, r.snapshot_date, r.report_date, r.period,
                 r.period_type, r.group_or_company_level>>

\* the mapping rows and audit rows a slice has emitted
MapRowsOf(t) == { r \in BagToSet(map_rows[t[1]]) : SliceKeyOf(r) = t[2] }
AuditRowsOf(t) == { r \in BagToSet(audit_rows[t[1]]) : SliceKeyOf(r) = t[2] }

HeadersOf(t) == slices[t[1]][t[2]].headers
ItemsOf(t) == { task[t].canonical_items[i] : i \in 1..Len(task[t].canonical_items) }

\* the slice has gone through its exact pass / through all of handle_slice
ExactDone(t) == task[t].pc \in {"llm", "wait_sem", "done"}
Processed(t) == task[t].pc = "done"

\* the lookup rows that apply to a symbol at a snapshot date: the rows of
\* that date and the timeless rows, each with its variant and with its
\* canonical name as a variant of itself
Vocabulary(sym, snapshot_date) ==
    LET rows == { lookup_rows[i] : i \in 1..Len(lookup_rows) }
        applies == { r \in rows : /\ r.symbol = sym
                                  /\ r.as_of_date \in {None, snapshot_date} }
    IN  { <<r.company_line_item, r.standardized_line_item>> : r \in applies }
          \cup { <<r.standardized_line_item, r.standardized_line_item>> : r \in applies }

\* ------------------------------------------------------------------------
\* C1
\* ------------------------------------------------------------------------
\* C1: in every state of a run, under every interleaving of a company's slice
\* tasks, no two mapping rows of the company (collected or persisted) have the
\* same (raw_line_item, snapshot_date, report_date, period, period_type,
\* group_or_company_level) key
C1_NoDuplicateKey ==
    /\ \A sym \in symbols : \A r \in BagToSet(map_rows[sym]) :
          /\ CopiesIn(r, map_rows[sym]) = 1
          /\ \A q \in BagToSet(map_rows[sym]) : RowKeyOf(q) = RowKeyOf(r) => q = r
    /\ \A r \in BagToSet(staging_table) :
          /\ CopiesIn(r, staging_table) = 1
          /\ \A q \in BagToSet(staging_table) :
                (q.symbol = r.symbol /\ RowKeyOf(q) = RowKeyOf(r)) => q = r

\* both slices of a company have run to their end, each after the other had
\* started, and in one of them the same key was submitted twice: by the
\* exact pass and again by the LLM pass
C1_Witness ==
    \E t \in DOMAIN task :
        /\ \A u \in Tasks(t[1]) : Processed(u)
        /\ Cardinality(Tasks(t[1])) = 2
        /\ \E c \in ItemsOf(t) :
              LET raw == RawMatch(task[t].llm_res, c)
              IN  /\ raw \in HeadersOf(t)
                  /\ norm(raw) \in DOMAIN task[t].variant_map

\* ------------------------------------------------------------------------
\* C2
\* ------------------------------------------------------------------------
ExactRowsFor(t, raw) ==
    Count(map_rows[t[1]], LAMBDA r : /\ SliceKeyOf(r) = t[2]
                                      /\ r.raw_line_item = raw
                                      /\ r.match_type = "EXACT")
LLMRowsFor(t, raw) ==
    Count(map_rows[t[1]], LAMBDA r : /\ SliceKeyOf(r) = t[2]
                                      /\ r.raw_line_item = raw
                                      /\ r.match_type = "LLM")
UnmappedRowsFor(t, raw) ==
    Count(audit_rows[t[1]], LAMBDA r : /\ SliceKeyOf(r) = t[2]
                                        /\ r.status = RAW_UNMAPPED
                                        /\ r.llm_detail = raw)

\* C2: after a slice has been processed, every raw header of it is in exactly
\* one bucket: one EXACT mapping row, one LLM mapping row, or one RAW_UNMAPPED
\* audit row, whatever the LLM answered
C2_EveryHeaderInOneBucket ==
    \A t \in DOMAIN task : Processed(t) =>
        \A raw \in HeadersOf(t) :
            ExactRowsFor(t, raw) + LLMRowsFor(t, raw) + UnmappedRowsFor(t, raw) = 1

\* ------------------------------------------------------------------------
\* C3
\* ------------------------------------------------------------------------
\* a mapping row of the slice names the canonical item
Mapped(t, c) ==
    \E r \in MapRowsOf(t) : r.standardized_line_item = c \/ r.company_line_item = c

UnresolvedStatuses == {EXPECTED_MISSING, NONE, AMBIG, LLM_ERROR}

UnresolvedRowsFor(t, c) ==
    Count(audit_rows[t[1]], LAMBDA r : /\ SliceKeyOf(r) = t[2]
                                        /\ r.company_line_item = c
                                        /\ r.status \in UnresolvedStatuses)

\* C3: after a slice has been processed, every canonical item of it is either
\* mapped and has no EXPECTED_MISSING / NONE / AMBIG / LLM_ERROR audit row, or
\* is not mapped and has exactly one such row
C3_EveryItemInOneOutcome ==
    \A t \in DOMAIN task : Processed(t) =>
        \A c \in ItemsOf(t) :
            \/ Mapped(t, c) /\ UnresolvedRowsFor(t, c) = 0
            \/ ~Mapped(t, c) /\ UnresolvedRowsFor(t, c) = 1

\* ------------------------------------------------------------------------
\* C4
\* ------------------------------------------------------------------------
\* the entries of the vocabulary a raw header is equal to once both are
\* normalized (blank entries are no part of a vocabulary)
NormEqualEntries(sym, snapshot_date, raw) ==
    { e \in Vocabulary(sym, snapshot_date) :
        /\ e[1] # NoneStr /\ NonBlank(e[1])
        /\ norm(e[1]) = norm(raw) }

ExactRowsOf(t, raw) ==
    { r \in MapRowsOf(t) : r.raw_line_item = raw /\ r.match_type = "EXACT" }

\* C4: in every slice whose exact pass has run, a raw header has an EXACT row
\* if and only if its normalized form equals the normalized form of a variant
\* or canonical name of the slice's vocabulary, and the row carries that
\* variant and the canonical name it belongs to
C4_ExactIffNormEqual ==
    \A t \in DOMAIN task : ExactDone(t) =>
        \A raw \in HeadersOf(t) :
            LET entries == NormEqualEntries(t[1], task[t].snapshot_date, raw)
            IN  /\ (ExactRowsOf(t, raw) # {}) <=> (entries # {})
                /\ \A r \in ExactRowsOf(t, raw) :
                      <<r.company_line_item, r.standardized_line_item>> \in entries

\* a header that differs from its variant in case or by a removed character
\* has its EXACT row, next to a header of the same slice that has none
C4_Witness ==
    \E t \in DOMAIN task :
        /\ ExactDone(t)
        /\ \E raw \in HeadersOf(t) : \E r \in ExactRowsOf(t, raw) :
              /\ r.company_line_item # raw
              /\ lower(r.company_line_item) # lower(raw)
        /\ \E raw \in HeadersOf(t) : ExactRowsOf(t, raw) = {}

\* ------------------------------------------------------------------------
\* C5, C6 (specification SnapSpec)
\* ------------------------------------------------------------------------
Earliest(dates) == CHOOSE d \in dates : \A e \in dates : d <= e

\* C5: for every non-empty set of known dates and every target date not
\* earlier than the earliest of them, choose_snapshot returns the greatest
\* known date that is <= the target date
C5_GreatestNotAfterTarget ==
    (cs_result.called /\ cs_dates # {} /\ cs_report_date >= Earliest(cs_dates)) =>
        /\ ~cs_result.result.raised
        /\ cs_result.result.value \in cs_dates
        /\ cs_result.result.value <= cs_report_date
        /\ \A d \in cs_dates : d <= cs_report_date => d <= cs_result.result.value

\* three dates d1 < d2 < d3 and a target with d2 <= t < d3: the call gave d2
C5_Witness ==
    /\ cs_result.called
    /\ Cardinality(cs_dates) >= 3
    /\ \E d2, d3 \in cs_dates :
          /\ Earliest(cs_dates) < d2 /\ d2 < d3
          /\ d2 <= cs_report_date /\ cs_report_date < d3
          /\ cs_result.result = Returned(d2)

\* C6: for every non-empty set of known dates and every target date earlier
\* than all of them, choose_snapshot returns the earliest known date
C6_EarliestFallback ==
    (cs_result.called /\ cs_dates # {} /\ cs_report_date < Earliest(cs_dates)) =>
        cs_result.result = Returned(Earliest(cs_dates))

\* ------------------------------------------------------------------------
\* C7
\* ------------------------------------------------------------------------
DatedDates(sym) ==
    { lookup_rows[i].as_of_date :
        i \in { j \in 1..Len(lookup_rows) : lookup_rows[j].symbol = sym } } \ {None}

\* C7: in every slice of a company with dated snapshots, the snapshot the
\* slice matches against is the one choose_snapshot selects for its report
\* date, and every EXACT row comes from a variant of that snapshot or from a
\* timeless variant: a header that is norm-equal only to variants of other
\* snapshots has no EXACT row.  With snapshots of day 10 and day 20, the
\* slice of day 15 has no EXACT row for a variant found only at day 20, the
\* slice of day 25 none for a variant found only at day 10.
C7_OnlyChosenSnapshot ==
    \A t \in DOMAIN task : (ExactDone(t) /\ DatedDates(t[1]) # {}) =>
        LET chosen == choose_snapshot(DatedDates(t[1]), DateOf(t[2][1])).value
        IN  /\ task[t].snapshot_date = chosen
            /\ chosen \in DatedDates(t[1])
            /\ \A raw \in HeadersOf(t) :
                  NormEqualEntries(t[1], chosen, raw) = {} => ExactRowsOf(t, raw) = {}
            /\ DatedDates(t[1]) = {10, 20} =>
                  /\ DateOf(t[2][1]) = 15 => (chosen = 10 /\ ExactRowsOf(t, NE) = {})
                  /\ DateOf(t[2][1]) = 25 => (chosen = 20 /\ ExactRowsOf(t, RawNi) = {})

\* both slices of the company with snapshots of day 10 and day 20 have been
\* processed; each holds a header that is norm-equal to a variant of the
\* other slice's snapshot only
C7_Witness ==
    /\ DatedDates("ABC") = {10, 20}
    /\ \A t \in Tasks("ABC") : Processed(t)
    /\ \E t \in Tasks("ABC") :
          /\ DateOf(t[2][1]) = 15
          /\ NE \in HeadersOf(t)
          /\ NormEqualEntries("ABC", 20, NE) # {}
          /\ \E r \in MapRowsOf(t) : r.match_type = "EXACT"
    /\ \E t \in Tasks("ABC") :
          /\ DateOf(t[2][1]) = 25
          /\ RawNi \in HeadersOf(t)
          /\ NormEqualEntries("ABC", 10, RawNi) # {}

\* ------------------------------------------------------------------------
\* C8
\* ------------------------------------------------------------------------
\* C8: every value map_canonical_to_raw returns that is not NONE, AMBIG or
\* LLM_ERROR is one of the raw headers passed to that call, and every LLM
\* mapping row has a raw_line_item that is a raw header of its slice
C8_LLMOutputContained ==
    \A t \in DOMAIN task :
        /\ task[t].pc = "done" =>
              \A k \in DOMAIN task[t].llm_res :
                  task[t].llm_res[k] \notin Sentinels => task[t].llm_res[k] \in HeadersOf(t)
        /\ \A r \in MapRowsOf(t) :
              r.match_type = "LLM" => r.raw_line_item \in HeadersOf(t)

\* ------------------------------------------------------------------------
\* C9
\* ------------------------------------------------------------------------
\* C9: every step keeps every mapping row a company has emitted, each with its
\* count, and adds no row whose dedup key an emitted row already has: the row
\* of an exact-matched header stays the EXACT row when the LLM later returns
\* that header
C9_FirstWriterWins ==
    [][\A sym \in symbols : \A r \in BagToSet(map_rows[sym]) :
          /\ CopiesIn(r, map_rows'[sym]) = CopiesIn(r, map_rows[sym])
          /\ \A q \in BagToSet(map_rows'[sym]) : RowKeyOf(q) = RowKeyOf(r) => q = r]_vars

\* a processed slice in which the LLM returned an exact-matched header for a
\* canonical item: the header's only row is the EXACT one
C9_Witness ==
    \E t \in DOMAIN task :
        /\ Processed(t)
        /\ \E c \in ItemsOf(t) :
              LET raw == RawMatch(task[t].llm_res, c)
              IN  /\ raw \in HeadersOf(t)
                  /\ norm(raw) \in DOMAIN task[t].variant_map
                  /\ task[t].variant_map[norm(raw)][1] # c
                  /\ \A r \in MapRowsOf(t) :
                        r.raw_line_item = raw => r.match_type = "EXACT"
                  /\ ExactRowsOf(t, raw) # {}

\* ------------------------------------------------------------------------
\* C10
\* ------------------------------------------------------------------------
LowConfidenceRowsFor(t, c) ==
    Count(audit_rows[t[1]], LAMBDA r : /\ SliceKeyOf(r) = t[2]
                                        /\ r.company_line_item = c
                                        /\ r.status = LOW_CONFIDENCE)

LLMRowLinks(t, raw, c) ==
    \E r \in MapRowsOf(t) : /\ r.match_type = "LLM"
                            /\ r.raw_line_item = raw
                            /\ r.company_line_item = c

\* the canonical items of the slice for which the LLM returned a raw header
MatchedItems(t) ==
    { c \in ItemsOf(t) : RawMatch(task[t].llm_res, c) \in HeadersOf(t) }

LowSimilarity(c, raw) == ~PassSimilarity(similarity(c, raw))

\* C10 as stated: a match below 0.70 always gives both the LLM mapping row for
\* that header and item and a LOW_CONFIDENCE audit row; a match of 0.70 or
\* more gives no LOW_CONFIDENCE row
C10_BothOutcomesAlways ==
    \A t \in DOMAIN task : Processed(t) =>
        \A c \in MatchedItems(t) :
            LET raw == RawMatch(task[t].llm_res, c)
            IN  IF LowSimilarity(c, raw)
                THEN LLMRowLinks(t, raw, c) /\ LowConfidenceRowsFor(t, c) = 1
                ELSE LowConfidenceRowsFor(t, c) = 0

\* the header already had a mapping row when the LLM pass came to the item:
\* it was exact-matched, or returned for an earlier item of canonical_items
EmittedEarlier(t, raw, c) ==
    \/ norm(raw) \in DOMAIN task[t].variant_map
    \/ \E i, j \in 1..Len(task[t].canonical_items) :
          /\ i < j
          /\ task[t].canonical_items[j] = c
          /\ RawMatch(task[t].llm_res, task[t].canonical_items[i]) = raw

\* C10 amended: a match below 0.70 always gives one LOW_CONFIDENCE audit row,
\* and gives the LLM mapping row for that header and item unless the header
\* already had a mapping row in the slice (the earlier row is kept); a match
\* of 0.70 or more gives no LOW_CONFIDENCE row
C10_LowConfidenceAdvisory ==
    \A t \in DOMAIN task : Processed(t) =>
        \A c \in MatchedItems(t) :
            LET raw == RawMatch(task[t].llm_res, c)
            IN  /\ LLMRowLinks(t, raw, c) <=> ~EmittedEarlier(t, raw, c)
                /\ IF LowSimilarity(c, raw)
                   THEN LowConfidenceRowsFor(t, c) = 1
                   ELSE LowConfidenceRowsFor(t, c) = 0

\* a processed slice with a match below 0.70 that has both its LLM row and its
\* LOW_CONFIDENCE row, and a processed slice with a match of 0.70 or more
C10_Witness ==
    /\ \E t \in DOMAIN task :
          /\ Processed(t)
          /\ \E c \in MatchedItems(t) :
                LET raw == RawMatch(task[t].llm_res, c)
                IN  /\ LowSimilarity(c, raw)
                    /\ LLMRowLinks(t, raw, c)
                    /\ LowConfidenceRowsFor(t, c) = 1
    /\ \E t \in DOMAIN task :
          /\ Processed(t)
          /\ \E c \in MatchedItems(t) :
                /\ ~LowSimilarity(c, RawMatch(task[t].llm_res, c))
                /\ LowConfidenceRowsFor(t, c) = 0

\* ------------------------------------------------------------------------
\* C11
\* ------------------------------------------------------------------------
\* the slice got an LLM response that could not be decoded
DecodeFailed(t) == task[t].decoded = "error"

AuditRowsWith(t, c, status) ==
    Count(audit_rows[t[1]], LAMBDA r : /\ SliceKeyOf(r) = t[2]
                                        /\ r.company_line_item = c
                                        /\ r.status = status)

\* C11: a slice whose LLM response cannot be decoded does not raise; every
\* requested canonical item is mapped to LLM_ERROR, the slice has exactly one
\* LLM_ERROR audit row for each canonical item and no LLM mapping row, and
\* every header that exact-matches has its EXACT row
C11_MalformedGivesLLMError ==
    \A t \in DOMAIN task : DecodeFailed(t) =>
        /\ task[t].pc = "done"
        /\ task[t].llm_res = [c \in ItemsOf(t) |-> LLM_ERROR]
        /\ \A c \in ItemsOf(t) : AuditRowsWith(t, c, LLM_ERROR) = 1
        /\ \A r \in MapRowsOf(t) : r.match_type = "EXACT"
        /\ \A raw \in HeadersOf(t) :
              NormEqualEntries(t[1], task[t].snapshot_date, raw) # {}
                  => ExactRowsOf(t, raw) # {}

\* a slice with two canonical items and an exact-matched header got a
\* response that could not be decoded
C11_Witness ==
    \E t \in DOMAIN task :
        /\ DecodeFailed(t)
        /\ Cardinality(ItemsOf(t)) >= 2
        /\ \E raw \in HeadersOf(t) : ExactRowsOf(t, raw) # {}

\* ------------------------------------------------------------------------
\* C12
\* ------------------------------------------------------------------------
\* the slice has made its LLM call
LLMCalled(t) == task[t].pc \in {"llm", "done"}

\* C12: the raw-header list a slice passes to the LLM matcher holds no header
\* that was exact-matched in the slice
C12_LLMGetsRemainderOnly ==
    \A t \in DOMAIN task : LLMCalled(t) =>
        \A raw \in task[t].raw_headers : ExactRowsOf(t, raw) = {}

\* ------------------------------------------------------------------------
\* C13 (specification RunSpec)
\* ------------------------------------------------------------------------
\* C13: when a company has failed (the LLM call of one of its slices raised),
\* the run is not aborted, no task of another company is cancelled, and at
\* the end of the run every other company with lookup rows has finished
C13_FailureIsIsolated ==
    \A sym \in symbols : co_pc[sym] = "failed" =>
        /\ main_pc # "aborted"
        /\ \A other \in symbols \ {sym} :
              /\ co_pc[other] # "cancelled"
              /\ \A t \in Tasks(other) : task[t].pc # "cancelled"

\* ------------------------------------------------------------------------
\* C14 (specification SemSpec)
\* ------------------------------------------------------------------------
RECURSIVE SumOver(_, _)
SumOver(f, S) ==
    IF S = {} THEN 0
    ELSE LET x == CHOOSE y \in S : TRUE
         IN  f[x] + SumOver(f, S \ {x})

\* C14: counting every company, at most CONCURRENCY LLM calls are in flight
C14_GlobalCap == SumOver(in_flight, symbols) <= CONCURRENCY

\* ------------------------------------------------------------------------
\* C15 (specification RunSpec)
\* ------------------------------------------------------------------------
\* the rows handle_slice gives for a slice when no other slice has run: the
\* exact pass and the LLM pass start from no seen key and no row, and read
\* only the lookup rows, the raw rows and the slice's LLM answer
RowsAlone(t) ==
    LET sym == t[1]
        key == t[2]
        lk == load_lookup(sym)
        chosen == IF DOMAIN lk.dated # {}
                  THEN choose_snapshot(DOMAIN lk.dated, DateOf(key[1]))
                  ELSE Returned(None)
        variant_map == variant_map_of(lk.dated, lk.timeless, chosen.value)
        items == canonical_items_of(lk.dated, lk.timeless, chosen.value)
        headers == SlicesOf(sym)[key].headers
        csv == CHOOSE c \in SlicesOf(sym)[key].csv : TRUE
        cx == Context(sym, key, chosen.value, variant_map, task[t].llm_res, csv)
        ex == ExactPass([mapped_lookup |-> {}, seen |-> {}, rows |-> EmptyBag],
                        headers, cx)
        st == LLMPass([raised |-> FALSE, mapped_lookup |-> ex.mapped_lookup,
                       seen |-> ex.seen, rows |-> ex.rows, audits |-> EmptyBag],
                      items, cx)
    IN  [rows |-> st.rows,
         audits |-> st.audits (+) RawUnmappedRows(headers, cx)
                      (+) ExpectedMissingRows(st.mapped_lookup, cx)]

\* the rows of a bag that belong to a slice are the rows of another bag
SliceRowsAre(bag, t, expected) ==
    /\ \A r \in BagToSet(expected) : CopiesIn(r, bag) = CopiesIn(r, expected)
    /\ \A r \in BagToSet(bag) :
          (r.symbol = t[1] /\ SliceKeyOf(r) = t[2]) => BagIn(r, expected)

PersistedRows(sym) ==
    { r \in BagToSet(staging_table) \cup BagToSet(audit_table) :
        r.symbol = sym /\ r.run_id = RunId }

\* the step writes a row of the company to the store or replaces its
\* standardized table
WritesFor(sym) ==
    \/ \E r \in BagToSet(staging_table') :
          r.symbol = sym /\ CopiesIn(r, staging_table') > CopiesIn(r, staging_table)
    \/ \E r \in BagToSet(audit_table') :
          r.symbol = sym /\ CopiesIn(r, audit_table') > CopiesIn(r, audit_table)
    \/ std_table'[sym] # std_table[sym]

\* C16: a step writes rows of a company or rebuilds its standardized table
\* only when every slice task of the company has finished; a company with a
\* slice still running has no row of the run in the store, and a company one
\* of whose slices raised has none either and keeps the standardized table
\* the run found
C16_PersistAfterAllSlices ==
    [][\A sym \in symbols :
          /\ WritesFor(sym) => \A t \in Tasks(sym) : task[t].pc = "done"
          /\ (\E t \in Tasks(sym) : Unfinished(task[t].pc)) => PersistedRows(sym) = {}
          /\ (\E t \in Tasks(sym) : task[t].pc = "raised") =>
                /\ PersistedRows(sym) = {}
                /\ std_table[sym] = PriorStdTable(sym)]_vars

\* a company has failed on one slice while another of its slices has run to
\* its end and left rows in memory; another company has persisted its rows
C16_Witness ==
    \E sym \in symbols :
        /\ co_pc[sym] = "failed"
        /\ \E t \in Tasks(sym) : task[t].pc = "raised"
        /\ \E t \in Tasks(sym) : task[t].pc = "done" /\ MapRowsOf(t) # {}
        /\ PersistedRows(sym) = {}
        /\ \E other \in symbols : co_pc[other] = "done" /\ PersistedRows(other) # {}

\* ------------------------------------------------------------------------
\* C17 (specification RunSpec)
\* ------------------------------------------------------------------------
\* C17: no step deletes or changes a row of the mapping table or of the
\* audit table: every row the store holds is still there, as many times,
\* after the step, so the rows of an earlier run outlive a later run
C17_StoreAppendOnly ==
    [][/\ \A r \in BagToSet(staging_table) :
             CopiesIn(r, staging_table') >= CopiesIn(r, staging_table)
       /\ \A r \in BagToSet(audit_table) :
             CopiesIn(r, audit_table') >= CopiesIn(r, audit_table)]_vars

\* ------------------------------------------------------------------------
\* C18
\* ------------------------------------------------------------------------
\* the canonical name was mapped in the slice: a mapping row carries it, or
\* the LLM returned a raw header for it
CanonicalMapped(t, std) ==
    \/ \E m \in MapRowsOf(t) : m.standardized_line_item = std
    \/ RawMatch(task[t].llm_res, std) \notin Sentinels

\* C18: in a processed slice an EXPECTED_MISSING audit row is recorded only
\* for an item whose canonical name was not mapped in the slice at all
C18_MissingOnlyIfUnmapped ==
    \A t \in DOMAIN task : Processed(t) =>
        \A r \in AuditRowsOf(t) :
            r.status = EXPECTED_MISSING => ~CanonicalMapped(t, r.standardized_line_item)

\* ------------------------------------------------------------------------
\* C19 (specification VocabSpec)
\* ------------------------------------------------------------------------
\* the entries of the lookup rows of one as_of_date (None: the timeless
\* rows): each row's variant, and its canonical name as a variant of itself
EntriesAt(sym, d) ==
    LET rows == { r \in { lookup_rows[i] : i \in 1..Len(lookup_rows) } :
                    r.symbol = sym /\ r.as_of_date = d }
    IN  { <<r.company_line_item, r.standardized_line_item>> : r \in rows }
          \cup { <<r.standardized_line_item, r.standardized_line_item>> : r \in rows }

NormEqualAt(sym, d, raw) ==
    { e \in EntriesAt(sym, d) :
        e[1] # NoneStr /\ NonBlank(e[1]) /\ norm(e[1]) = norm(raw) }

\* C19: in every slice a header that is norm-equal to a timeless variant has
\* an EXACT row, and where the chosen snapshot has a variant that is
\* norm-equal to the header, the row carries the snapshot's variant and
\* canonical name: the snapshot overrides the timeless entry
C19_SnapshotOverridesTimeless ==
    \A t \in DOMAIN task : (ExactDone(t) /\ task[t].snapshot_date # None) =>
        \A raw \in HeadersOf(t) :
            /\ NormEqualAt(t[1], None, raw) # {} => ExactRowsOf(t, raw) # {}
            /\ NormEqualAt(t[1], task[t].snapshot_date, raw) # {} =>
                  \A r \in ExactRowsOf(t, raw) :
                      <<r.company_line_item, r.standardized_line_item>>
                          \in NormEqualAt(t[1], task[t].snapshot_date, raw)

\* ------------------------------------------------------------------------
\* C20 (specification RunSpec)
\* ------------------------------------------------------------------------
NoLookupRows(sym) ==
    load_lookup(sym).dated = << >> /\ load_lookup(sym).timeless = << >>

\* the company went through process_company: rows persisted, table rebuilt
ProcessedAsUsual(sym) ==
    /\ co_pc[sym] = "done"
    /\ \E r \in BagToSet(staging_table) : r.symbol = sym /\ r.run_id = RunId
    /\ std_table[sym] = StdTable(sym, staging_table, RunId)
    /\ std_table[sym] # {}

\* C20: a company without lookup rows is skipped: process_company returns
\* without raising, no slice task and so no LLM call is made for it, no
\* mapping or audit row of it is persisted and its standardized table is
\* left as it was; a run that ends with such a company has processed every
\* other company as usual
C20_NoLookupSkipsCompany ==
    \A sym \in symbols : NoLookupRows(sym) =>
        /\ co_pc[sym] \in {"pending", "skipped"}
        /\ Tasks(sym) = {}
        /\ PersistedRows(sym) = {}
        /\ std_table[sym] = PriorStdTable(sym)
        /\ main_pc = "done" =>
              /\ co_pc[sym] = "skipped"
              /\ \A other \in symbols : ~NoLookupRows(other) => ProcessedAsUsual(other)

\* the run has ended: NOL, which has raw rows and no lookup row, was skipped,
\* ABC and XYZ were processed
C20_Witness ==
    /\ main_pc = "done"
    /\ NoLookupRows("NOL")
    /\ \E r \in raw_rows : r.symbol = "NOL"
    /\ co_pc["NOL"] = "skipped"
    /\ ProcessedAsUsual("ABC")
    /\ ProcessedAsUsual("XYZ")

\* ------------------------------------------------------------------------
\* C21 (specification RebuildSpec)
\* ------------------------------------------------------------------------
\* C21: every row of a rebuilt standardized table pairs a raw row of the
\* company with a mapping row of the mapping table whose run_id is the
\* current run's and whose symbol, raw_line_item, report_date, period,
\* period_type and group_or_company_level are the raw row's
C21_RebuildJoinsThisRunOnly ==
    \A sym \in symbols : \A j \in std_table[sym] :
        /\ j.raw \in raw_rows
        /\ j.raw.symbol = sym
        /\ BagIn(j.mapping, staging_table)
        /\ j.mapping.run_id = RunId
        /\ j.mapping.symbol = sym
        /\ j.mapping.raw_line_item = j.raw.line_item
        /\ SliceKeyOf(j.mapping) = SliceKeyOf(j.raw)

\* a table was rebuilt to one row while the mapping table held, for the same
\* raw row, the mapping of this run and the same mapping of another run
C21_Witness ==
    \E sym \in symbols :
        /\ co_pc[sym] = "done"
        /\ Cardinality(std_table[sym]) = 1
        /\ \E j \in std_table[sym] :
              BagIn([j.mapping EXCEPT !.run_id = PriorRunId], staging_table)

\* ------------------------------------------------------------------------
\* C22 (specification NormSpec)
\* ------------------------------------------------------------------------
\* C22: normalization is idempotent: norm(norm(s)) equals norm(s)
C22_NormIdempotent ==
    Len(fn_result) = 2 => fn_result[2] = fn_result[1]

\* norm was applied twice to a string with an upper-case letter and two
\* characters it removes
C22_Witness ==
    /\ Len(fn_result) = 2
    /\ Len(fn_args) - Len(fn_result[1]) >= 2
    /\ \E i \in 1..Len(fn_args) : fn_args[i] = "N"

\* ------------------------------------------------------------------------
\* C23 (specification FySpec)
\* ------------------------------------------------------------------------
\* the audited dates of a company
AuditedDates(df, symbol) ==
    { r.reference_date : r \in { x \in df : /\ lower(x.statement_type) = AUDITED
                                            /\ x.symbol = symbol
                                            /\ x.reference_date # None } }

\* one day after the company's previous audited date, 1900-01-01 for the
\* first
StartRange(df, symbol, e) ==
    LET before == { d \in AuditedDates(df, symbol) : d < e }
    IN  IF before = {} THEN min_date
        ELSE (CHOOSE d \in before : \A x \in before : x <= d) + 1

\* the audited dates whose range holds the record's reference date
RangesHolding(df, r) ==
    { e \in AuditedDates(df, r.symbol) :
        /\ r.reference_date # None
        /\ StartRange(df, r.symbol, e) < r.reference_date
        /\ r.reference_date <= e }

\* C23: a record gets the fiscal year Y exactly when its company has an
\* audited date e in calendar year Y with start_range < reference_date <= e,
\* start_range one day after the previous audited date (1900-01-01 for the
\* first); otherwise it is left without a fiscal year; no reference date
\* lies in two ranges of one company
C23_FiscalYearIffInRange ==
    fn_result # << >> =>
        \A r \in fn_args :
            /\ Cardinality(RangesHolding(fn_args, r)) <= 1
            /\ \A e \in RangesHolding(fn_args, r) :
                  fn_result[1][r].fiscal_year = YearOf(e)
            /\ RangesHolding(fn_args, r) = {} =>
                  fn_result[1][r].fiscal_year = None

\* the assignment ran on a company with two audited dates: one record got
\* the year of the second range, one record between the ranges got none
C23_Witness ==
    /\ fn_result # << >>
    /\ \E r \in fn_args, q \in fn_args :
          /\ r.symbol = q.symbol
          /\ fn_result[1][r].fiscal_year # None
          /\ \E e \in RangesHolding(fn_args, r) :
                StartRange(fn_args, r.symbol, e) # min_date
          /\ q.reference_date # None
          /\ q.reference_date > min_date
          /\ fn_result[1][q].fiscal_year = None

\* ------------------------------------------------------------------------
\* C26 (specification FySpec)
\* ------------------------------------------------------------------------
\* C26: the ranges of a company with an audited date leave no gap: every
\* reference date later than 1900-01-01 and not later than the latest
\* audited date of the company gets a fiscal year, the year of the one
\* audited date that closes its range, also on the day right after an
\* audited date
C26_RangesLeaveNoGap ==
    fn_result # << >> =>
        \A r \in fn_args :
            (/\ r.reference_date # None
             /\ r.reference_date > min_date
             /\ \E e \in AuditedDates(fn_args, r.symbol) : r.reference_date <= e)
            => /\ fn_result[1][r].fiscal_year # None
               /\ \E e \in AuditedDates(fn_args, r.symbol) :
                     /\ r.reference_date <= e
                     /\ \A d \in AuditedDates(fn_args, r.symbol) :
                           d >= r.reference_date => e <= d
                     /\ fn_result[1][r].fiscal_year = YearOf(e)

\* ------------------------------------------------------------------------
\* C24 (specification ValidateSpec)
\* ------------------------------------------------------------------------
\* the records of a (symbol, fiscal_year) the validator looks at
QuarterRecords(df, symbol, fiscal_year) ==
    { r \in Filtered(df) : /\ r.symbol = symbol
                           /\ r.fiscal_year = fiscal_year
                           /\ r.period_quarter \in DOMAIN quarter_order }

\* record a, of an earlier quarter, is dated too late for record b
OutOfOrder(a, b) ==
    /\ quarter_order[a.period_quarter] < quarter_order[b.period_quarter]
    /\ IF b.period_quarter = "FY" THEN a.reference_date > b.reference_date
       ELSE a.reference_date >= b.reference_date

\* C24: a (symbol, fiscal_year) gets at least one violation whenever some
\* record of an earlier quarter is dated on or after a record of a later
\* quarter among Q1..Q4, or after an FY record; it gets none when all its
\* records satisfy Q1 < Q2 < Q3 < Q4 <= FY
C24_ViolationIffOutOfOrder ==
    fn_result # << >> =>
        \A r \in Filtered(fn_args) :
            LET recs == QuarterRecords(fn_args, r.symbol, r.fiscal_year)
                reported == \E v \in fn_result[1] : /\ v.symbol = r.symbol
                                                    /\ v.fiscal_year = r.fiscal_year
            IN  reported <=> \E a \in recs, b \in recs : OutOfOrder(a, b)

\* ------------------------------------------------------------------------
\* C25 (specification RetryLiveSpec)
\* ------------------------------------------------------------------------
\* 2^n
RECURSIVE TwoTo(_)
TwoTo(n) == IF n = 0 THEN 1 ELSE 2 * TwoTo(n - 1)

\* at most MAX_RETRIES calls; the i-th wait is the base 1 s doubled i - 1
\* times plus at most a tenth of it, and no more than MAX_BACKOFF
RetryBounds ==
    /\ Len(fn_locals.attempts) <= MAX_RETRIES
    /\ Len(fn_locals.sleeps) < MAX_RETRIES
    /\ \A i \in 1..Len(fn_locals.sleeps) :
          LET base == INITIAL_BACKOFF * TicksPerSecond * TwoTo(i - 1)
          IN  /\ fn_locals.sleeps[i] >= base
              /\ 10 * fn_locals.sleeps[i] <= 11 * base
              /\ fn_locals.sleeps[i] <= MAX_BACKOFF * TicksPerSecond

\* what was returned: the parsed array of the first attempt that parsed, or
\* after MAX_RETRIES failed attempts Other with low confidence for every item
RetryResult ==
    fn_result # << >> =>
        LET attempts == fn_locals.attempts
            n == Len(attempts)
        IN  /\ n >= 1
            /\ \A i \in 1..(n - 1) : attempts[i].kind # "json"
            /\ \/ /\ attempts[n].kind = "json"
                  /\ fn_result[1] = ParseStandardizations(attempts[n].standardizations)
               \/ /\ attempts[n].kind # "json"
                  /\ n = MAX_RETRIES
                  /\ DOMAIN fn_result[1] = { item.line_item : item \in fn_args }
                  /\ \A k \in DOMAIN fn_result[1] :
                        /\ fn_result[1][k].standardized_name = "Other"
                        /\ fn_result[1][k].confidence = "low"

\* C25: at most MAX_RETRIES LLM calls; the wait between two attempts starts
\* at about 1 second, doubles after each failure and never exceeds
\* MAX_BACKOFF; the call always ends with a result, the parsed
\* standardizations of the first successful attempt or, after the fifth
\* failure, Other with low confidence for every item of the batch
C25_RetryBoundedAndTerminates ==
    /\ [](RetryBounds /\ RetryResult)
    /\ <>(fn_result # << >>)

\* the fifth attempt failed after four waits and the fallback was returned
C25_Witness ==
    /\ fn_result # << >>
    /\ Len(fn_locals.attempts) = MAX_RETRIES
    /\ Len(fn_locals.sleeps) = MAX_RETRIES - 1
    /\ fn_locals.attempts[MAX_RETRIES].kind # "json"
    /\ Cardinality(DOMAIN fn_result[1]) = 2

\* ------------------------------------------------------------------------
\* C30 (specification SelectSpec)
\* ------------------------------------------------------------------------
\* the entries of the input of one category
EntriesOf(category) ==
    { fn_args[i] : i \in { k \in 1..Len(fn_args) :
                             fn_args[k].std.standardized_name = category } }

\* C30: exactly one original line item is kept for each category of the
\* input: one of the highest confidence, and among the items of that
\* confidence one with the shortest name
C30_BestIsHighestThenShortest ==
    fn_result # << >> =>
        \A i \in 1..Len(fn_args) :
            LET entries == EntriesOf(fn_args[i].std.standardized_name)
                kept == { e \in entries : e.original_item \in DOMAIN fn_result[1] }
            IN  /\ Cardinality(kept) = 1
                /\ \A k \in kept : \A e \in entries :
                      /\ confidence_order[e.std.confidence]
                            <= confidence_order[k.std.confidence]
                      /\ e.std.confidence = k.std.confidence =>
                            Len(k.original_item) <= Len(e.original_item)

\* ------------------------------------------------------------------------
\* C27 (specification VocabSpec)
\* ------------------------------------------------------------------------
\* the slice's LLM call returned and the pass over its answer raised
LookupFailed(t) ==
    /\ task[t].pc = "raised"
    /\ task[t].decoded # NewTask.decoded

\* C27: every mapping row of match_type LLM has the canonical item the LLM
\* was asked about (its company_line_item) as standardized_line_item, also
\* when a variant of another canonical name has the normalized form of that
\* name; and the lookup of the canonical name in variant_map never fails
C27_LLMRowStandardIsCanonical ==
    /\ \A sym \in symbols : \A row \in BagToSet(map_rows[sym]) :
          row.match_type = "LLM" =>
              row.standardized_line_item = row.company_line_item
    /\ \A t \in DOMAIN task : ~LookupFailed(t)

\* ------------------------------------------------------------------------
\* C28 (specification StoreSpec)
\* ------------------------------------------------------------------------
\* process_company has ended for the company
Ended(sym) == co_pc[sym] \in {"done", "failed", "skipped", "cancelled"}

\* the rows of the company and the run that a table of the store holds
StoredRows(table, sym) ==
    { r \in BagToSet(table) : r.symbol = sym /\ r.run_id = RunId }

\* C28: when process_company has ended, normally or with an exception from a
\* job of the store, the store holds the company's mapping rows and its
\* audit rows of the run, or none of either
C28_MappingAndAuditTogether ==
    \A sym \in symbols : Ended(sym) =>
        \/ /\ StoredRows(staging_table, sym) = {}
           /\ StoredRows(audit_table, sym) = {}
        \/ /\ StoredRows(staging_table, sym) = BagToSet(map_rows[sym])
           /\ StoredRows(audit_table, sym) = BagToSet(audit_rows[sym])

\* ------------------------------------------------------------------------
\* C29 (specification StoreSpec)
\* ------------------------------------------------------------------------
\* C29: a run whose --symbol names no raw table exits with an error and
\* leaves the mapping table, the audit table and the standardized tables as
\* it found them; no company is processed
C29_UnknownSymbolChangesNothing ==
    (args_symbol # "" /\ args_symbol \notin { r.symbol : r \in raw_rows }) =>
        /\ main_pc \in {"idle", "exited"}
        /\ symbols = {}
        /\ staging_table = SetToBag({PriorMapRow})
        /\ audit_table = SetToBag({PriorAuditRow})
        /\ \A s \in DOMAIN std_table : std_table[s] = PriorStdTable(s)

=============================================================================
